---- MODULE Spec2Model ----
(***************************************************************************)
(* Model of the suite operator of sweet (src/sweet/core.py): class SuiteOp, *)
(* the error channel _emit_err and the resolution wrapper _resolved_ctx.    *)
(*                                                                          *)
(* SuiteOp keeps two pieces of state: _ctx_names (ctx_id -> display name)   *)
(* and _suite, a SweetSuite whose contexts are keyed by ctx_id.  SweetSuite *)
(* (sweet/_rezapi.py) and the rez resolution engine are not part of the     *)
(* sources at hand; their operations are modelled from the specification    *)
(* (spec.md 4.2, 6) and are named Suite... / ResolvedContext below.         *)
(*                                                                          *)
(* Context ids (uuid4 hex strings in the code) are modelled as the naturals *)
(* 1, 2, ... handed out by a counter, display names as strings: an id is    *)
(* never equal to a name.                                                   *)
(***************************************************************************)
EXTENDS Integers, Sequences, FiniteSets, TLC

VARIABLES
    ctx_names,   \* SuiteOp._ctx_names : ctx_id -> name
    suite,       \* SuiteOp._suite     : [contexts, next_priority, saved_tools]
    next_id,     \* the next value _unique_id() returns
    receivers,   \* bool(signal("sweet:error").receivers)
    last,        \* the call in progress and how it ended; Idle between calls
    gen,         \* the generator a caller holds: an iter_contexts() or
                 \* iter_tools() result that is not consumed yet
    widget       \* the fields of the gui widget under study (NoWidget while
                 \* the operator is studied on its own)

vars == <<ctx_names, suite, next_id, receivers, last, gen, widget>>

----------------------------------------------------------------------------
(* Bounds and input sets *)

MaxIds == 3          \* number of ctx_ids _unique_id() hands out in one run

MaxHeld == 2         \* number of calls made while a generator is held

MaxWidgets == 3      \* number of BusyWidget instances

MaxPanels == 3       \* number of contexts a NameStackedBase is told of

MaxStash == 3        \* number of resolved contexts a ContextResolveWidget is given

Ids == 1 .. MaxIds

CtxNames == {"a", "b", "c"}

ToolNames == {"build", "run"}

\* request lists handed to add_context
RequestLists == {<<>>, <<"foo">>, <<"bad">>, <<"unsat">>}

NoArg == "<None>"    \* Python's None for an optional string/bool argument

\* (tool_name, new_alias, set_hidden) arguments handed to update_tool
UpdateToolArgs ==
    {<<"build", NoArg, "True">>, <<"build", NoArg, "False">>,
     <<"run", "build", NoArg>>, <<"run", "", NoArg>>,
     <<"build", "", "True">>}

\* the inputs of the calls that edit contexts
EditNames == {"a", "b"}

EditRequests == {<<"foo">>, <<"bad">>}

EditToolArgs ==
    {<<"build", NoArg, "True">>, <<"build", NoArg, "False">>,
     <<"run", "build", NoArg>>}

\* update_tool arguments with two different aliases for one tool
OverrideArgs == UpdateToolArgs \cup {<<"run", "go", NoArg>>}

NoRequests == <<NoArg>>    \* Python's None for the optional requests argument

\* (requests, prefix, suffix) arguments handed to update_context
UpdateContextArgs ==
    {<<NoRequests, NoArg, NoArg>>,
     <<(<<"foo">>), NoArg, NoArg>>, <<(<<"bad">>), NoArg, NoArg>>,
     <<NoRequests, "x", NoArg>>, <<NoRequests, NoArg, "y">>,
     <<(<< >>), "", "">>}

\* the data a suite keeps for a context that resolved `requests`
SeedContext(priority, requests) ==
    [priority |-> priority, requests |-> requests, success |-> TRUE,
     tools |-> IF requests = <<"foo">> THEN <<"build", "run">> ELSE << >>,
     tool_aliases |-> << >>, hidden_tools |-> {}, prefix |-> "", suffix |-> ""]

\* seeds handed to SuiteOp(...): nothing, something that is no Suite, and
\* suites holding zero, one and two contexts
Seeds ==
    {[kind |-> "none", contexts |-> << >>, next_priority |-> 1],
     [kind |-> "bogus", contexts |-> << >>, next_priority |-> 1],
     [kind |-> "falsy", contexts |-> << >>, next_priority |-> 1],
     [kind |-> "suite", contexts |-> << >>, next_priority |-> 1],
     [kind |-> "suite", contexts |-> [n \in {"a"} |-> SeedContext(1, <<"foo">>)],
      next_priority |-> 2],
     [kind |-> "suite",
      contexts |-> [n \in {"a", "b"} |->
                      IF n = "a" THEN SeedContext(1, <<"foo">>)
                      ELSE SeedContext(2, << >>)],
      next_priority |-> 3]}

\* an operator over a suite that was loaded with saved tools: its ctx_ids and
\* their names, what a context may hold, and the saved tool entries
\* (saved_tools.items(), flattened, in the dict's order)
LoadedNames == [i \in {1, 2} |-> IF i = 1 THEN "a" ELSE "b"]

LoadedContexts ==
    {[SeedContext(0, requests) EXCEPT !.hidden_tools = hidden,
                                      !.tool_aliases = aliases] :
        requests \in {<<"foo">>, << >>},
        hidden \in {{}, {"build"}},
        aliases \in {<< >>, [t \in {"run"} |-> "build"]}}

SavedEntries ==
    <<[tool_name |-> "build", tool_alias |-> "build", context_name |-> 1],
      [tool_name |-> "run", tool_alias |-> "run", context_name |-> 1],
      [tool_name |-> "old", tool_alias |-> "old", context_name |-> 1],
      [tool_name |-> "build", tool_alias |-> "build", context_name |-> 2],
      [tool_name |-> "old", tool_alias |-> "old", context_name |-> 2]>>

----------------------------------------------------------------------------
(* Constants of the program *)

it_visible == 0
it_hidden == 1
it_shadowed == 2
it_missing == -1

----------------------------------------------------------------------------
(* Small helpers on Python dicts, modelled as functions *)

EmptyMap == << >>

MapSet(f, k, v) == [x \in (DOMAIN f) \cup {k} |-> IF x = k THEN v ELSE f[x]]

MapDel(f, k) == [x \in (DOMAIN f) \ {k} |-> f[x]]

Values(f) == {f[x] : x \in DOMAIN f}

Range(seq) == {seq[k] : k \in DOMAIN seq}

\* len(list(f.values())): one entry per key
NumValues(f) == Cardinality(DOMAIN f)

----------------------------------------------------------------------------
(* The error channel *)

NoEmit == [err |-> "none", fatal |-> FALSE, sent |-> FALSE, raised |-> FALSE]

\* variant of EmitErr: without listeners the error is not raised
EmitErrNoRaise(rcv, err, fatal) ==
    [err |-> err, fatal |-> fatal, sent |-> rcv, raised |-> rcv /\ fatal]

\* _emit_err(sender, err, fatal) with `rcv` = bool(sig_err.receivers)
EmitErr(rcv, err, fatal) ==
    IF rcv
    THEN [err |-> err, fatal |-> fatal, sent |-> TRUE, raised |-> fatal]
    ELSE [err |-> err, fatal |-> fatal, sent |-> FALSE, raised |-> TRUE]

----------------------------------------------------------------------------
(* The resolution engine (external): ResolvedContext(requests) *)

\* tools, in a fixed order, of the packages the requests resolve to
ToolsOf(requests) ==
    IF requests = <<"foo">> THEN <<"build", "run">> ELSE << >>

\* ResolvedContext(requests): raises, or returns a resolved or failed context
ResolvedContext(requests) ==
    IF requests = <<"bad">>
    THEN [raised |-> TRUE, requests |-> requests, success |-> FALSE,
          tools |-> << >>]
    ELSE [raised |-> FALSE, requests |-> requests,
          success |-> (requests # <<"unsat">>), tools |-> ToolsOf(requests)]

\* variant of ResolvedCtx: the engine's error is swallowed
ResolvedCtxSilent(rcv, requests) ==
    LET c == ResolvedContext(requests) IN
    IF c.raised
    THEN [context |-> ResolvedContext(<< >>), emit |-> NoEmit]
    ELSE [context |-> c, emit |-> NoEmit]

\* _resolved_ctx(requests): the context and what went through the channel
ResolvedCtx(rcv, requests) ==
    LET c == ResolvedContext(requests) IN
    IF c.raised
    THEN [context |-> ResolvedContext(<< >>),
          emit |-> EmitErr(rcv, "resolve", FALSE)]
    ELSE [context |-> c, emit |-> NoEmit]

----------------------------------------------------------------------------
(* The underlying suite (SweetSuite) *)

EmptySuite == [contexts |-> EmptyMap, next_priority |-> 1,
               saved_tools |-> EmptyMap]

SuiteHasContext(s, key) == key \in DOMAIN s.contexts

\* Suite.add_context(name=key, context=context)
SuiteAddContext(s, key, context) ==
    [s EXCEPT !.contexts = MapSet(s.contexts, key,
                  [priority |-> s.next_priority,
                   requests |-> context.requests,
                   success |-> context.success,
                   tools |-> context.tools,
                   tool_aliases |-> EmptyMap,
                   hidden_tools |-> {},
                   prefix |-> "",
                   suffix |-> ""]),
              !.next_priority = s.next_priority + 1]

\* Suite.remove_context(key); raises SuiteError when key is no context
SuiteRemoveContext(s, key) ==
    IF SuiteHasContext(s, key)
    THEN [raised |-> FALSE, suite |-> [s EXCEPT !.contexts = MapDel(s.contexts, key)]]
    ELSE [raised |-> TRUE, suite |-> s]

\* Suite.validate(): the engine's structural validation of every context
SuiteValidate(s, ok) == ok \/ DOMAIN s.contexts = {}

\* Suite._context(key)/validate_tool(key, tool_name): raises SuiteError when
\* key is no context or the context's resolution has no such tool
SuiteValidateTool(s, key, tool_name) ==
    /\ SuiteHasContext(s, key)
    /\ \E k \in DOMAIN s.contexts[key].tools : s.contexts[key].tools[k] = tool_name

\* Suite.unalias_tool(key, tool_name)
SuiteUnaliasTool(s, key, tool_name) ==
    [s EXCEPT !.contexts[key].tool_aliases = MapDel(@, tool_name)]

\* Suite.alias_tool(key, tool_name, tool_alias)
SuiteAliasTool(s, key, tool_name, tool_alias) ==
    [s EXCEPT !.contexts[key].tool_aliases = MapSet(@, tool_name, tool_alias)]

\* Suite.alias_tool raises SuiteError for a tool that has an alias already
SuiteAliasToolRaises(s, key, tool_name) ==
    tool_name \in DOMAIN s.contexts[key].tool_aliases

\* Suite.hide_tool(key, tool_name)
SuiteHideTool(s, key, tool_name) ==
    [s EXCEPT !.contexts[key].hidden_tools = @ \cup {tool_name}]

\* Suite.unhide_tool(key, tool_name)
SuiteUnhideTool(s, key, tool_name) ==
    [s EXCEPT !.contexts[key].hidden_tools = @ \ {tool_name}]

\* Suite.update_context(key, context): the context's resolution is replaced,
\* its priority, overrides, prefix and suffix stay; raises SuiteError when key
\* is no context
SuiteUpdateContext(s, key, context) ==
    IF SuiteHasContext(s, key)
    THEN [raised |-> FALSE,
          suite |-> [s EXCEPT !.contexts[key].requests = context.requests,
                              !.contexts[key].success = context.success,
                              !.contexts[key].tools = context.tools]]
    ELSE [raised |-> TRUE, suite |-> s]

\* Suite.set_context_prefix(key, prefix); raises SuiteError when key is no
\* context
SuiteSetContextPrefix(s, key, prefix) ==
    IF SuiteHasContext(s, key)
    THEN [raised |-> FALSE, suite |-> [s EXCEPT !.contexts[key].prefix = prefix]]
    ELSE [raised |-> TRUE, suite |-> s]

\* Suite.set_context_suffix(key, suffix); raises SuiteError when key is no
\* context
SuiteSetContextSuffix(s, key, suffix) ==
    IF SuiteHasContext(s, key)
    THEN [raised |-> FALSE, suite |-> [s EXCEPT !.contexts[key].suffix = suffix]]
    ELSE [raised |-> TRUE, suite |-> s]

(* The tool conflict resolver (spec.md 4.2) *)

RECURSIVE ByPriorityDesc(_, _)
\* the keys in S, highest priority first; equal priorities keep insertion
\* (= key) order
ByPriorityDesc(cs, S) ==
    IF S = {} THEN << >>
    ELSE LET top == CHOOSE i \in S : \A j \in S :
                        \/ cs[j].priority < cs[i].priority
                        \/ (cs[j].priority = cs[i].priority /\ i <= j)
         IN <<top>> \o ByPriorityDesc(cs, S \ {top})

\* the alias a tool of a context is exposed under
ToolAlias(c, tool_name) ==
    IF tool_name \in DOMAIN c.tool_aliases
    THEN c.tool_aliases[tool_name]
    ELSE c.prefix \o tool_name \o c.suffix

\* the tool entries of one context, in the order of its resolution
ContextEntries(cs, key) ==
    [k \in DOMAIN cs[key].tools |->
        [tool_name |-> cs[key].tools[k],
         tool_alias |-> ToolAlias(cs[key], cs[key].tools[k]),
         context_name |-> key]]

EmptyTable == [tools |-> << >>, hidden_tools |-> << >>, tool_conflicts |-> << >>]

SeqAliases(entries) == {entries[k].tool_alias : k \in DOMAIN entries}

\* one tool entry enters the registry
Register(table, cs, e) ==
    IF e.tool_name \in cs[e.context_name].hidden_tools
    THEN [table EXCEPT !.hidden_tools = Append(@, e)]
    ELSE IF e.tool_alias \in SeqAliases(table.tools)
         THEN [table EXCEPT !.tool_conflicts = Append(@, e)]
         ELSE [table EXCEPT !.tools = Append(@, e)]

RECURSIVE RegisterAll(_, _, _)
RegisterAll(table, cs, entries) ==
    IF entries = << >> THEN table
    ELSE RegisterAll(Register(table, cs, Head(entries)), cs, Tail(entries))

RECURSIVE Flatten(_)
Flatten(seqs) ==
    IF seqs = << >> THEN << >> ELSE Head(seqs) \o Flatten(Tail(seqs))

\* Suite.update_tools(): tools (one entry per alias, in registration order),
\* hidden_tools, and tool_conflicts (the losers, in registration order)
SuiteUpdateTools(s) ==
    LET cs == s.contexts
        order == ByPriorityDesc(cs, DOMAIN cs)
    IN RegisterAll(EmptyTable, cs,
                   Flatten([k \in DOMAIN order |-> ContextEntries(cs, order[k])]))

RECURSIVE FirstSeen(_)
\* the aliases of a sequence of entries, each once, in order of first occurrence
FirstSeen(entries) ==
    IF entries = << >> THEN << >>
    ELSE LET rest == FirstSeen(SubSeq(entries, 1, Len(entries) - 1))
             a == entries[Len(entries)].tool_alias
         IN IF \E k \in DOMAIN rest : rest[k] = a THEN rest ELSE Append(rest, a)

\* tool_conflicts.values(): the losers grouped by alias, aliases in order of
\* their first conflict
ConflictEntries(table) ==
    LET aliases == FirstSeen(table.tool_conflicts) IN
    Flatten([k \in DOMAIN aliases |->
                SelectSeq(table.tool_conflicts,
                          LAMBDA e : e.tool_alias = aliases[k])])

----------------------------------------------------------------------------
(* SuiteOp *)

\* what a call reports, everything `last` holds: the call and its arguments,
\* what went through the error channel, and whether the call raised
Call(op, id, name, emit, raised) ==
    [op |-> op, ctx_id |-> id, name |-> name, err |-> emit.err,
     fatal |-> emit.fatal, sent |-> emit.sent, raised |-> raised,
     requests |-> << >>, view |-> << >>, ids |-> {},
     new_alias |-> NoArg, set_hidden |-> NoArg,
     prefix |-> NoArg, suffix |-> NoArg, ascending |-> FALSE,
     valid |-> TRUE]

\* the same for a call that builds an operator: `view` is what iter_contexts
\* showed of the source and `ids` the ctx_ids in use before the call
CallOn(op, emit, raised, view, ids) ==
    [Call(op, 0, "", emit, raised) EXCEPT !.view = view, !.ids = ids]

\* no call in progress: the last one has returned to its caller
Idle == Call("idle", 0, "", NoEmit, FALSE)

Ready == last = Idle

\* no widget is studied
NoWidget == [kind |-> "none"]

\* no generator is held
NoGen == [kind |-> "none", ascending |-> FALSE, then |-> << >>, held |-> 0]

\* one more call is made on the operator; it counts when a generator is held
CanCall == gen.held < MaxHeld

AfterCall == IF gen = NoGen THEN gen ELSE [gen EXCEPT !.held = @ + 1]

Init ==
    /\ ctx_names = EmptyMap
    /\ suite = EmptySuite
    /\ next_id = 1
    /\ receivers \in BOOLEAN
    /\ last = Call("init", 0, "", NoEmit, FALSE)
    /\ gen = NoGen
    /\ widget = NoWidget

\* variant of AddContext: the name is not checked against the names in use
AddContextNoDupCheck(names, s, id, rcv, name, requests) ==
    LET r == ResolvedCtx(rcv, requests) IN
    IF r.emit.raised
    THEN [names |-> names, suite |-> s, emit |-> r.emit, raised |-> TRUE,
          used_id |-> FALSE]
    ELSE [names |-> MapSet(names, id, name),
          suite |-> SuiteAddContext(s, id, r.context),
          emit |-> r.emit, raised |-> FALSE, used_id |-> TRUE]

\* variant of AddContext: a duplicate name is reported and the context is
\* added all the same
AddContextReportsAndAdds(names, s, id, rcv, name, requests) ==
    LET e == IF name \in Values(names) THEN EmitErr(rcv, "dup", FALSE) ELSE NoEmit
        r == ResolvedCtx(rcv, requests)
    IN IF e.raised \/ r.emit.raised
       THEN [names |-> names, suite |-> s,
             emit |-> IF e.raised THEN e ELSE r.emit, raised |-> TRUE,
             used_id |-> FALSE]
       ELSE [names |-> MapSet(names, id, name),
             suite |-> SuiteAddContext(s, id, r.context),
             emit |-> IF e.err # "none" THEN e ELSE r.emit, raised |-> FALSE,
             used_id |-> TRUE]

\* variant of AddContext: the new context gets the lowest priority
AddContextAtBottom(names, s, id, rcv, name, requests) ==
    IF name \in Values(names)
    THEN LET e == EmitErr(rcv, "dup", FALSE) IN
         [names |-> names, suite |-> s, emit |-> e, raised |-> e.raised,
          used_id |-> FALSE]
    ELSE LET r == ResolvedCtx(rcv, requests) IN
         IF r.emit.raised
         THEN [names |-> names, suite |-> s, emit |-> r.emit, raised |-> TRUE,
               used_id |-> FALSE]
         ELSE [names |-> MapSet(names, id, name),
               suite |-> [SuiteAddContext(s, id, r.context)
                            EXCEPT !.contexts[id].priority = 0],
               emit |-> r.emit, raised |-> FALSE, used_id |-> TRUE]

\* SuiteOp.add_context(name, requests): the state after the call; `id` is
\* what _unique_id() returns
AddContext(names, s, id, rcv, name, requests) ==
    IF name \in Values(names)
    THEN LET e == EmitErr(rcv, "dup", FALSE) IN
         [names |-> names, suite |-> s, emit |-> e, raised |-> e.raised,
          used_id |-> FALSE]
    ELSE LET r == ResolvedCtx(rcv, requests) IN
         IF r.emit.raised
         THEN [names |-> names, suite |-> s, emit |-> r.emit, raised |-> TRUE,
               used_id |-> FALSE]
         ELSE [names |-> MapSet(names, id, name),
               suite |-> SuiteAddContext(s, id, r.context),
               emit |-> r.emit, raised |-> FALSE, used_id |-> TRUE]

add_context(name, requests) ==
    /\ CanCall
    /\ next_id <= MaxIds
    /\ LET r == AddContext(ctx_names, suite, next_id, receivers, name, requests) IN
       /\ ctx_names' = r.names
       /\ suite' = r.suite
       /\ next_id' = IF r.used_id THEN next_id + 1 ELSE next_id
       /\ last' = [Call("add_context", 0, name, r.emit, r.raised)
                        EXCEPT !.requests = requests]
    /\ gen' = AfterCall
    /\ UNCHANGED <<receivers, widget>>

\* SuiteOp.lookup_context(ctx_id): the name, or None
LookupContext(names, id) == IF id \in DOMAIN names THEN names[id] ELSE NoArg

\* variant of DropContext: the name binding is kept
DropContextKeepName(names, s, id) ==
    [names |-> names, suite |-> SuiteRemoveContext(s, id).suite, raised |-> FALSE]

\* variant of DropContext: the suite's SuiteError is not caught
DropContextNoForgive(names, s, id) ==
    LET r == SuiteRemoveContext(s, id) IN
    [names |-> MapDel(names, id), suite |-> r.suite, raised |-> r.raised]

\* SuiteOp.drop_context(ctx_id)
DropContext(names, s, id) ==
    LET r == SuiteRemoveContext(s, id) IN
    [names |-> MapDel(names, id), suite |-> r.suite, raised |-> FALSE]

drop_context(id) ==
    /\ CanCall
    /\ LET r == DropContext(ctx_names, suite, id) IN
       /\ ctx_names' = r.names
       /\ suite' = r.suite
       /\ last' = Call("drop_context", id, LookupContext(ctx_names, id), NoEmit,
                       r.raised)
    /\ gen' = AfterCall
    /\ UNCHANGED <<next_id, receivers, widget>>

\* variant of RenameContext: the name is not checked against the names in use
RenameContextNoDupCheck(names, s, rcv, id, new_name) ==
    IF SuiteHasContext(s, id)
    THEN [names |-> MapSet(names, id, new_name), emit |-> NoEmit]
    ELSE [names |-> names, emit |-> EmitErr(rcv, "unknown", FALSE)]

\* variant of RenameContext: the map is rebuilt with the renamed binding only
RenameContextForgetsOthers(names, s, rcv, id, new_name) ==
    IF SuiteHasContext(s, id)
    THEN IF new_name \notin Values(names)
         THEN [names |-> [x \in {id} |-> new_name], emit |-> NoEmit]
         ELSE [names |-> names, emit |-> EmitErr(rcv, "dup", FALSE)]
    ELSE [names |-> names, emit |-> EmitErr(rcv, "unknown", FALSE)]

\* SuiteOp.rename_context(ctx_id, new_name)
RenameContext(names, s, rcv, id, new_name) ==
    IF SuiteHasContext(s, id)
    THEN IF new_name \notin Values(names)
         THEN [names |-> MapSet(names, id, new_name), emit |-> NoEmit]
         ELSE [names |-> names, emit |-> EmitErr(rcv, "dup", FALSE)]
    ELSE [names |-> names, emit |-> EmitErr(rcv, "unknown", FALSE)]

rename_context(id, new_name) ==
    /\ CanCall
    /\ LET r == RenameContext(ctx_names, suite, receivers, id, new_name) IN
       /\ ctx_names' = r.names
       /\ last' = Call("rename_context", id, new_name, r.emit, r.emit.raised)
    /\ gen' = AfterCall
    /\ UNCHANGED <<suite, next_id, receivers, widget>>

\* SuiteOp._tool_data_to_tuple(d, invalid)
ToolDataToTuple(names, d, invalid) ==
    [name |-> d.tool_name, alias |-> d.tool_alias, invalid |-> invalid,
     ctx_name |-> LookupContext(names, d.context_name),
     ctx_id |-> d.context_name]

Tuples(names, entries, invalid) ==
    [k \in DOMAIN entries |-> ToolDataToTuple(names, entries[k], invalid)]

\* variant of IterTools: the losers of a conflict are yielded as visible
IterToolsShadowedAsVisible(names, s) ==
    LET table == SuiteUpdateTools(s) IN
    Tuples(names, table.tools, it_visible)
        \o Tuples(names, table.hidden_tools, it_hidden)
        \o Tuples(names, ConflictEntries(table), it_visible)

\* variant of IterTools: the order of the records depends on whether a
\* listener is attached
IterToolsByListener(names, s) ==
    LET table == SuiteUpdateTools(s)
        live == table.tools \o table.hidden_tools \o ConflictEntries(table)
        seen == SeqAliases(live)
        missing == SelectSeq(s.saved_tools, LAMBDA d : d.tool_alias \notin seen)
        visible == Tuples(names, table.tools, it_visible)
    IN (IF receivers
        THEN [k \in DOMAIN visible |-> visible[Len(visible) + 1 - k]]
        ELSE visible)
        \o Tuples(names, table.hidden_tools, it_hidden)
        \o Tuples(names, ConflictEntries(table), it_shadowed)
        \o Tuples(names, missing, it_missing)

\* variant of IterTools: the losers of a conflict are dropped
IterToolsDropsLosers(names, s) ==
    LET table == SuiteUpdateTools(s)
        live == table.tools \o table.hidden_tools
        seen == SeqAliases(live)
        missing == SelectSeq(s.saved_tools, LAMBDA d : d.tool_alias \notin seen)
    IN Tuples(names, table.tools, it_visible)
        \o Tuples(names, table.hidden_tools, it_hidden)
        \o Tuples(names, missing, it_missing)

\* variant of IterTools: the hidden tools are yielded as shadowed
IterToolsHiddenAsShadowed(names, s) ==
    LET table == SuiteUpdateTools(s) IN
    Tuples(names, table.tools, it_visible)
        \o Tuples(names, table.hidden_tools, it_shadowed)
        \o Tuples(names, ConflictEntries(table), it_shadowed)

\* variant of IterTools: the hidden tools are yielded before the visible ones
IterToolsHiddenFirst(names, s) ==
    LET table == SuiteUpdateTools(s)
        live == table.tools \o table.hidden_tools \o ConflictEntries(table)
        seen == SeqAliases(live)
        missing == SelectSeq(s.saved_tools, LAMBDA d : d.tool_alias \notin seen)
    IN Tuples(names, table.hidden_tools, it_hidden)
        \o Tuples(names, table.tools, it_visible)
        \o Tuples(names, ConflictEntries(table), it_shadowed)
        \o Tuples(names, missing, it_missing)

\* variant of IterTools: a saved tool is held back only by a live tool of that
\* alias in another context
IterToolsMissingPerContext(names, s) ==
    LET table == SuiteUpdateTools(s)
        live == table.tools \o table.hidden_tools \o ConflictEntries(table)
        missing == SelectSeq(s.saved_tools,
                       LAMBDA d : ~\E k \in DOMAIN live :
                                     /\ live[k].tool_alias = d.tool_alias
                                     /\ live[k].context_name # d.context_name)
    IN Tuples(names, table.tools, it_visible)
        \o Tuples(names, table.hidden_tools, it_hidden)
        \o Tuples(names, ConflictEntries(table), it_shadowed)
        \o Tuples(names, missing, it_missing)

\* SuiteOp.iter_tools(): the records it yields, in order
IterTools(names, s) ==
    LET table == SuiteUpdateTools(s)
        live == table.tools \o table.hidden_tools \o ConflictEntries(table)
        seen == SeqAliases(live)
        missing == SelectSeq(s.saved_tools, LAMBDA d : d.tool_alias \notin seen)
    IN Tuples(names, table.tools, it_visible)
        \o Tuples(names, table.hidden_tools, it_hidden)
        \o Tuples(names, ConflictEntries(table), it_shadowed)
        \o Tuples(names, missing, it_missing)

\* list(op.iter_tools()), consumed at once
iter_tools ==
    /\ last' = [Call("iter_tools", 0, "", NoEmit, FALSE)
                    EXCEPT !.view = IterTools(ctx_names, suite)]
    /\ UNCHANGED <<ctx_names, suite, next_id, receivers, gen, widget>>

\* the order sorted(..., key=priority, reverse=not ascending) puts contexts i
\* and j in; the sort is stable, equal priorities keep the dict's order
Before(cs, i, j, ascending) ==
    IF cs[i].priority = cs[j].priority THEN i <= j
    ELSE IF ascending THEN cs[i].priority < cs[j].priority
         ELSE cs[i].priority > cs[j].priority

RECURSIVE Sorted(_, _, _)
\* sorted(contexts.values(), key=lambda x: x["priority"], reverse=not ascending)
Sorted(cs, S, ascending) ==
    IF S = {} THEN << >>
    ELSE LET first == CHOOSE i \in S : \A j \in S : Before(cs, i, j, ascending)
         IN <<first>> \o Sorted(cs, S \ {first}, ascending)

\* SuiteOp._ctx_data_to_tuple(d): name, ctx_id, context (requests, success),
\* priority, prefix, suffix
CtxDataToTuple(names, s, id) ==
    [name |-> LookupContext(names, id),
     ctx_id |-> id,
     priority |-> s.contexts[id].priority,
     requests |-> s.contexts[id].requests,
     success |-> s.contexts[id].success,
     prefix |-> s.contexts[id].prefix,
     suffix |-> s.contexts[id].suffix]

\* variant of IterContexts: the ascending flag is taken the wrong way round
IterContextsFlipped(names, s, ascending) ==
    LET order == Sorted(s.contexts, DOMAIN s.contexts, ~ascending) IN
    [k \in DOMAIN order |-> CtxDataToTuple(names, s, order[k])]

\* list(SuiteOp.iter_contexts(ascending=ascending)): the records it yields
IterContexts(names, s, ascending) ==
    LET order == Sorted(s.contexts, DOMAIN s.contexts, ascending) IN
    [k \in DOMAIN order |-> CtxDataToTuple(names, s, order[k])]

\* list(op.iter_contexts(ascending=ascending)), consumed at once
iter_contexts(ascending) ==
    /\ last' = [Call("iter_contexts", 0, "", NoEmit, FALSE)
                    EXCEPT !.view = IterContexts(ctx_names, suite, ascending),
                           !.ascending = ascending]
    /\ UNCHANGED <<ctx_names, suite, next_id, receivers, gen, widget>>

(* Generators: iter_contexts and iter_tools are generator functions; calling
   one runs none of its body, which runs when the result is consumed *)

\* g = op.iter_contexts(ascending=ascending), kept for later; `then` is what
\* the operator holds at this moment
hold_iter_contexts(ascending) ==
    /\ gen = NoGen
    /\ gen' = [kind |-> "iter_contexts", ascending |-> ascending,
               then |-> IterContexts(ctx_names, suite, ascending), held |-> 0]
    /\ UNCHANGED <<ctx_names, suite, next_id, receivers, last, widget>>

\* g = op.iter_tools(), kept for later
hold_iter_tools ==
    /\ gen = NoGen
    /\ gen' = [kind |-> "iter_tools", ascending |-> FALSE,
               then |-> IterTools(ctx_names, suite), held |-> 0]
    /\ UNCHANGED <<ctx_names, suite, next_id, receivers, last, widget>>

\* list(g): the body of the generator runs now, on the operator as it is now
consume ==
    /\ gen # NoGen
    /\ last' = [Call(gen.kind, 0, "consume", NoEmit, FALSE)
                    EXCEPT !.view = IF gen.kind = "iter_contexts"
                                    THEN IterContexts(ctx_names, suite, gen.ascending)
                                    ELSE IterTools(ctx_names, suite),
                           !.ascending = gen.ascending]
    /\ gen' = NoGen
    /\ UNCHANGED <<ctx_names, suite, next_id, receivers, widget>>

(* Repeated passes: the caller keeps the records of its last complete pass
   in `gen.then`; `gen.held` counts the mutating calls made since *)

\* a pass of this query repeats the kept one: no mutating call was made since
Repeats(kind, ascending) ==
    gen.kind = kind /\ gen.ascending = ascending /\ gen.held = 0

PassName(kind, ascending) == IF Repeats(kind, ascending) THEN "repeat" ELSE "pass"

\* kept = list(op.iter_contexts(ascending=ascending))
pass_iter_contexts(ascending) ==
    /\ last' = [Call("iter_contexts", 0, PassName("iter_contexts", ascending),
                     NoEmit, FALSE)
                    EXCEPT !.view = IterContexts(ctx_names, suite, ascending),
                           !.ascending = ascending]
    /\ gen' = [kind |-> "iter_contexts", ascending |-> ascending,
               then |-> IterContexts(ctx_names, suite, ascending), held |-> 0]
    /\ UNCHANGED <<ctx_names, suite, next_id, receivers, widget>>

\* kept = list(op.iter_tools())
pass_iter_tools ==
    /\ last' = [Call("iter_tools", 0, PassName("iter_tools", FALSE), NoEmit, FALSE)
                    EXCEPT !.view = IterTools(ctx_names, suite)]
    /\ gen' = [kind |-> "iter_tools", ascending |-> FALSE,
               then |-> IterTools(ctx_names, suite), held |-> 0]
    /\ UNCHANGED <<ctx_names, suite, next_id, receivers, widget>>

\* variant of UpdateContext: omitted requests are resolved as the empty list
UpdateContextAlwaysResolves(s, rcv, id, requests, prefix, suffix) ==
    LET r == IF requests # NoRequests
             THEN ResolvedCtx(rcv, requests)
             ELSE ResolvedCtx(rcv, << >>)
        u1 == IF ~r.emit.raised
              THEN SuiteUpdateContext(s, id, r.context)
              ELSE [raised |-> r.emit.raised, suite |-> s]
        u2 == IF ~u1.raised /\ prefix # NoArg
              THEN SuiteSetContextPrefix(u1.suite, id, prefix)
              ELSE u1
        u3 == IF ~u2.raised /\ suffix # NoArg
              THEN SuiteSetContextSuffix(u2.suite, id, suffix)
              ELSE u2
    IN [suite |-> u3.suite, emit |-> r.emit, raised |-> u3.raised]

\* variant of UpdateContext: the prefix is set as the suffix and the suffix
\* as the prefix
UpdateContextSwapsAffixes(s, rcv, id, requests, prefix, suffix) ==
    LET r == IF requests # NoRequests
             THEN ResolvedCtx(rcv, requests)
             ELSE [context |-> ResolvedContext(<< >>), emit |-> NoEmit]
        u1 == IF requests # NoRequests /\ ~r.emit.raised
              THEN SuiteUpdateContext(s, id, r.context)
              ELSE [raised |-> r.emit.raised, suite |-> s]
        u2 == IF ~u1.raised /\ prefix # NoArg
              THEN SuiteSetContextSuffix(u1.suite, id, prefix)
              ELSE u1
        u3 == IF ~u2.raised /\ suffix # NoArg
              THEN SuiteSetContextPrefix(u2.suite, id, suffix)
              ELSE u2
    IN [suite |-> u3.suite, emit |-> r.emit, raised |-> u3.raised]

\* variant of UpdateContext: the context keeps its resolution when the
\* engine's error was reported
UpdateContextKeepsOnError(s, rcv, id, requests, prefix, suffix) ==
    LET r == IF requests # NoRequests
             THEN ResolvedCtx(rcv, requests)
             ELSE [context |-> ResolvedContext(<< >>), emit |-> NoEmit]
        u1 == IF requests # NoRequests /\ r.emit.err = "none"
              THEN SuiteUpdateContext(s, id, r.context)
              ELSE [raised |-> r.emit.raised, suite |-> s]
        u2 == IF ~u1.raised /\ prefix # NoArg
              THEN SuiteSetContextPrefix(u1.suite, id, prefix)
              ELSE u1
        u3 == IF ~u2.raised /\ suffix # NoArg
              THEN SuiteSetContextSuffix(u2.suite, id, suffix)
              ELSE u2
    IN [suite |-> u3.suite, emit |-> r.emit, raised |-> u3.raised]

\* SuiteOp.update_context(ctx_id, requests, prefix, suffix): the three steps in
\* turn, each skipped when its argument is None; an exception ends the call
\* with the steps before it done.  `emit` is what _resolved_ctx put through
\* the channel; a SuiteError of the suite is raised as it is.
UpdateContext(s, rcv, id, requests, prefix, suffix) ==
    LET r == IF requests # NoRequests
             THEN ResolvedCtx(rcv, requests)
             ELSE [context |-> ResolvedContext(<< >>), emit |-> NoEmit]
        u1 == IF requests # NoRequests /\ ~r.emit.raised
              THEN SuiteUpdateContext(s, id, r.context)
              ELSE [raised |-> r.emit.raised, suite |-> s]
        u2 == IF ~u1.raised /\ prefix # NoArg
              THEN SuiteSetContextPrefix(u1.suite, id, prefix)
              ELSE u1
        u3 == IF ~u2.raised /\ suffix # NoArg
              THEN SuiteSetContextSuffix(u2.suite, id, suffix)
              ELSE u2
    IN [suite |-> u3.suite, emit |-> r.emit, raised |-> u3.raised]

update_context(id, requests, prefix, suffix) ==
    /\ CanCall
    /\ LET r == UpdateContext(suite, receivers, id, requests, prefix, suffix) IN
       /\ suite' = r.suite
       /\ last' = [Call("update_context", id, "", r.emit, r.raised)
                        EXCEPT !.requests = requests, !.prefix = prefix,
                               !.suffix = suffix]
    /\ gen' = AfterCall
    /\ UNCHANGED <<ctx_names, next_id, receivers, widget>>

\* variant of UpdateTool: the overrides are applied without validating the tool
UpdateToolNoValidate(s, rcv, id, tool_name, new_alias, set_hidden) ==
    IF ~SuiteHasContext(s, id)
    THEN [suite |-> s, emit |-> EmitErr(rcv, "tool", FALSE)]
    ELSE LET s1 == IF new_alias # NoArg
                   THEN LET u == SuiteUnaliasTool(s, id, tool_name) IN
                        IF new_alias # ""
                        THEN SuiteAliasTool(u, id, tool_name, new_alias)
                        ELSE u
                   ELSE s
             s2 == IF set_hidden # NoArg
                   THEN IF set_hidden = "True"
                        THEN SuiteHideTool(s1, id, tool_name)
                        ELSE SuiteUnhideTool(s1, id, tool_name)
                   ELSE s1
         IN [suite |-> s2, emit |-> NoEmit]

\* variant of UpdateTool: set_hidden=False does not take the tool out of the
\* hidden ones
UpdateToolNeverUnhides(s, rcv, id, tool_name, new_alias, set_hidden) ==
    IF ~SuiteValidateTool(s, id, tool_name)
    THEN [suite |-> s, emit |-> EmitErr(rcv, "tool", FALSE)]
    ELSE LET s1 == IF new_alias # NoArg
                   THEN LET u == SuiteUnaliasTool(s, id, tool_name) IN
                        IF new_alias # ""
                        THEN SuiteAliasTool(u, id, tool_name, new_alias)
                        ELSE u
                   ELSE s
             s2 == IF set_hidden = "True"
                   THEN SuiteHideTool(s1, id, tool_name)
                   ELSE s1
         IN [suite |-> s2, emit |-> NoEmit]

\* variant of UpdateTool: the alias is set without removing the one in place,
\* so the suite's SuiteError comes up to the caller
UpdateToolNoUnalias(s, rcv, id, tool_name, new_alias, set_hidden) ==
    IF ~SuiteValidateTool(s, id, tool_name)
    THEN [suite |-> s, emit |-> EmitErr(rcv, "tool", FALSE)]
    ELSE IF new_alias \notin {NoArg, ""} /\ SuiteAliasToolRaises(s, id, tool_name)
    THEN [suite |-> s, emit |-> [NoEmit EXCEPT !.raised = TRUE]]
    ELSE LET s1 == IF new_alias # NoArg
                   THEN LET u == SuiteUnaliasTool(s, id, tool_name) IN
                        IF new_alias # ""
                        THEN SuiteAliasTool(u, id, tool_name, new_alias)
                        ELSE u
                   ELSE s
             s2 == IF set_hidden # NoArg
                   THEN IF set_hidden = "True"
                        THEN SuiteHideTool(s1, id, tool_name)
                        ELSE SuiteUnhideTool(s1, id, tool_name)
                   ELSE s1
         IN [suite |-> s2, emit |-> NoEmit]

\* variant of UpdateTool: only a tool that is currently visible is accepted
UpdateToolOnlyVisible(s, rcv, id, tool_name, new_alias, set_hidden) ==
    IF ~\E e \in Range(SuiteUpdateTools(s).tools) :
            e.context_name = id /\ e.tool_name = tool_name
    THEN [suite |-> s, emit |-> EmitErr(rcv, "tool", FALSE)]
    ELSE LET s1 == IF new_alias # NoArg
                   THEN LET u == SuiteUnaliasTool(s, id, tool_name) IN
                        IF new_alias # ""
                        THEN SuiteAliasTool(u, id, tool_name, new_alias)
                        ELSE u
                   ELSE s
             s2 == IF set_hidden # NoArg
                   THEN IF set_hidden = "True"
                        THEN SuiteHideTool(s1, id, tool_name)
                        ELSE SuiteUnhideTool(s1, id, tool_name)
                   ELSE s1
         IN [suite |-> s2, emit |-> NoEmit]

\* SuiteOp.update_tool(ctx_id, tool_name, new_alias, set_hidden)
UpdateTool(s, rcv, id, tool_name, new_alias, set_hidden) ==
    IF ~SuiteValidateTool(s, id, tool_name)
    THEN [suite |-> s, emit |-> EmitErr(rcv, "tool", FALSE)]
    ELSE LET s1 == IF new_alias # NoArg
                   THEN LET u == SuiteUnaliasTool(s, id, tool_name) IN
                        IF new_alias # ""
                        THEN SuiteAliasTool(u, id, tool_name, new_alias)
                        ELSE u
                   ELSE s
             s2 == IF set_hidden # NoArg
                   THEN IF set_hidden = "True"
                        THEN SuiteHideTool(s1, id, tool_name)
                        ELSE SuiteUnhideTool(s1, id, tool_name)
                   ELSE s1
         IN [suite |-> s2, emit |-> NoEmit]

update_tool(id, tool_name, new_alias, set_hidden) ==
    /\ CanCall
    /\ LET r == UpdateTool(suite, receivers, id, tool_name, new_alias, set_hidden) IN
       /\ suite' = r.suite
       /\ last' = [Call("update_tool", id, tool_name, r.emit, r.emit.raised)
                        EXCEPT !.new_alias = new_alias, !.set_hidden = set_hidden]
    /\ gen' = AfterCall
    /\ UNCHANGED <<ctx_names, next_id, receivers, widget>>

\* a second update_tool on the suite the first one left; it is not made when
\* the first one raised
ThenUpdateTool(first, rcv, id, tool_name, new_alias, set_hidden) ==
    IF first.emit.raised THEN first
    ELSE LET second == UpdateTool(first.suite, rcv, id, tool_name, new_alias,
                                  set_hidden)
         IN [suite |-> second.suite,
             emit |-> IF first.emit.err # "none" THEN first.emit ELSE second.emit]

\* op.update_tool(id, tool_name, set_hidden=True)
\* op.update_tool(id, tool_name, set_hidden=False)
hide_unhide(id, tool_name) ==
    /\ CanCall
    /\ LET first == UpdateTool(suite, receivers, id, tool_name, NoArg, "True")
           r == ThenUpdateTool(first, receivers, id, tool_name, NoArg, "False")
       IN /\ suite' = r.suite
          /\ last' = Call("hide_unhide", id, tool_name, r.emit, r.emit.raised)
    /\ gen' = AfterCall
    /\ UNCHANGED <<ctx_names, next_id, receivers, widget>>

\* op.update_tool(id, tool_name, new_alias=new_alias)
\* op.update_tool(id, tool_name, new_alias="")
alias_unalias(id, tool_name, new_alias) ==
    /\ CanCall
    /\ LET first == UpdateTool(suite, receivers, id, tool_name, new_alias, NoArg)
           r == ThenUpdateTool(first, receivers, id, tool_name, "", NoArg)
       IN /\ suite' = r.suite
          /\ last' = [Call("alias_unalias", id, tool_name, r.emit, r.emit.raised)
                        EXCEPT !.new_alias = new_alias]
    /\ gen' = AfterCall
    /\ UNCHANGED <<ctx_names, next_id, receivers, widget>>

\* op.update_tool(id, tool_name, new_alias=first)
\* op.update_tool(id, tool_name, new_alias=second)
alias_realias(id, tool_name, first, second) ==
    /\ CanCall
    /\ LET r1 == UpdateTool(suite, receivers, id, tool_name, first, NoArg)
           r == ThenUpdateTool(r1, receivers, id, tool_name, second, NoArg)
       IN /\ suite' = r.suite
          /\ last' = [Call("alias_realias", id, tool_name, r.emit, r.emit.raised)
                        EXCEPT !.new_alias = second]
    /\ gen' = AfterCall
    /\ UNCHANGED <<ctx_names, next_id, receivers, widget>>

\* SuiteOp.sanity_check(): what it emits; a fatal error is raised by the
\* channel, so the first failed check ends the call
SanityCheck(names, s, rcv, ok) ==
    IF \E id \in DOMAIN names : ~SuiteHasContext(s, id)
    THEN EmitErr(rcv, "id_mismatch", TRUE)
    ELSE IF NumValues(names) # Cardinality(Values(names))
         THEN EmitErr(rcv, "name_dup", TRUE)
         ELSE IF ~SuiteValidate(s, ok)
              THEN EmitErr(rcv, "invalid", TRUE)
              ELSE NoEmit

\* `ok`: the verdict of the engine's structural validation during this call
sanity_check(ok) ==
    /\ LET e == SanityCheck(ctx_names, suite, receivers, ok) IN
       last' = [Call("sanity_check", 0, "", e, e.raised)
                    EXCEPT !.valid = SuiteValidate(suite, ok)]
    /\ UNCHANGED <<ctx_names, suite, next_id, receivers, gen, widget>>

(* Serialisation and construction *)

Least(S) == CHOOSE i \in S : \A j \in S : i <= j

RECURSIVE SwapToNames(_, _, _, _)
\* for ctx_id, name in _ctx_names.items(): _suite.rename_context(ctx_id, name)
\* contexts keyed by id move to `byname`; a rename of a missing key or onto a
\* key in use raises SuiteError
SwapToNames(byid, byname, names, todo) ==
    IF todo = {} THEN [raised |-> FALSE, byid |-> byid, byname |-> byname]
    ELSE LET id == Least(todo) IN
         IF id \notin DOMAIN byid \/ names[id] \in DOMAIN byname
         THEN [raised |-> TRUE, byid |-> byid, byname |-> byname]
         ELSE SwapToNames(MapDel(byid, id), MapSet(byname, names[id], byid[id]),
                          names, todo \ {id})

RECURSIVE SwapToIds(_, _, _, _)
\* for ctx_id, name in _ctx_names.items(): _suite.rename_context(name, ctx_id)
SwapToIds(byid, byname, names, todo) ==
    IF todo = {} THEN [raised |-> FALSE, byid |-> byid, byname |-> byname]
    ELSE LET id == Least(todo) IN
         IF names[id] \notin DOMAIN byname \/ id \in DOMAIN byid
         THEN [raised |-> TRUE, byid |-> byid, byname |-> byname]
         ELSE SwapToIds(MapSet(byid, id, byname[names[id]]),
                        MapDel(byname, names[id]), names, todo \ {id})

\* Suite.to_dict() of a suite whose contexts are keyed by name
SuiteToDict(byname) == [contexts |-> byname]

MaxPriority(byname) ==
    IF DOMAIN byname = {} THEN 0
    ELSE LET top == CHOOSE n \in DOMAIN byname : \A m \in DOMAIN byname :
                        byname[m].priority <= byname[n].priority
         IN byname[top].priority

\* SweetSuite.from_dict(d): a suite keyed by the names of d
SuiteFromDict(d) ==
    [kind |-> "suite", contexts |-> d.contexts,
     next_priority |-> MaxPriority(d.contexts) + 1]

RECURSIVE NamesByPriorityDesc(_, _)
NamesByPriorityDesc(byname, S) ==
    IF S = {} THEN << >>
    ELSE LET top == CHOOSE n \in S : \A m \in S :
                        m = n \/ byname[m].priority < byname[n].priority
         IN <<top>> \o NamesByPriorityDesc(byname, S \ {top})

\* (name, priority, requests) of the contexts of a suite keyed by name,
\* highest priority first
NameView(byname) ==
    LET order == NamesByPriorityDesc(byname, DOMAIN byname) IN
    [k \in DOMAIN order |->
        [name |-> order[k], priority |-> byname[order[k]].priority,
         requests |-> byname[order[k]].requests]]

\* variant of ToDict: the ctx_ids are not restored after the dict is taken
ToDictNoRestore(names, s, rcv, ok) ==
    LET e == SanityCheck(names, s, rcv, ok) IN
    IF e.raised
    THEN [emit |-> e, raised |-> TRUE, dict |-> SuiteToDict(EmptyMap), suite |-> s]
    ELSE LET there == SwapToNames(s.contexts, EmptyMap, names, DOMAIN names)
         IN IF there.raised
            THEN [emit |-> e, raised |-> TRUE, dict |-> SuiteToDict(EmptyMap),
                  suite |-> s]
            ELSE [emit |-> e, raised |-> FALSE,
                  dict |-> SuiteToDict(there.byname),
                  suite |-> [s EXCEPT !.contexts = there.byid]]

\* SuiteOp.to_dict()
ToDict(names, s, rcv, ok) ==
    LET e == SanityCheck(names, s, rcv, ok) IN
    IF e.raised
    THEN [emit |-> e, raised |-> TRUE, dict |-> SuiteToDict(EmptyMap), suite |-> s]
    ELSE LET there == SwapToNames(s.contexts, EmptyMap, names, DOMAIN names)
             back == SwapToIds(there.byid, there.byname, names, DOMAIN names)
         IN IF there.raised
            THEN [emit |-> e, raised |-> TRUE, dict |-> SuiteToDict(EmptyMap),
                  suite |-> s]
            ELSE [emit |-> e, raised |-> back.raised,
                  dict |-> SuiteToDict(there.byname),
                  suite |-> [s EXCEPT !.contexts = back.byid]]

to_dict(ok) ==
    /\ LET r == ToDict(ctx_names, suite, receivers, ok) IN
       /\ suite' = r.suite
       /\ last' = [Call("to_dict", 0, "", r.emit, r.raised)
                        EXCEPT !.view = NameView(r.dict.contexts)]
    /\ UNCHANGED <<ctx_names, next_id, receivers, gen, widget>>

\* (name, priority, requests) of what iter_contexts yields
ContextView(names, s) ==
    LET all == IterContexts(names, s, FALSE) IN
    [k \in DOMAIN all |->
        [name |-> all[k].name, priority |-> all[k].priority,
         requests |-> all[k].requests]]

\* {_unique_id(): c["name"] for c in suite.contexts.keys()}: c is a key of
\* the contexts dict, a str, and c["name"] raises TypeError
SeedCtxNames(keys) ==
    IF keys = {}
    THEN [raised |-> FALSE, names |-> EmptyMap]
    ELSE [raised |-> TRUE, names |-> EmptyMap]

\* SuiteOp.__init__(suite=seed); seed.kind is "none" (no argument), "bogus"
\* (not a Suite), "falsy" (not a Suite and false in a boolean context, as {},
\* "" or 0 are: `suite or SweetSuite()` replaces it before the type is looked
\* at) or "suite"
Construct(seed, rcv, ok) ==
    LET e == IF seed.kind = "bogus" THEN EmitErr(rcv, "type", FALSE) ELSE NoEmit
        contexts == IF seed.kind = "suite" THEN seed.contexts ELSE EmptyMap
        prio == IF seed.kind = "suite" THEN seed.next_priority ELSE 1
        made == SeedCtxNames(DOMAIN contexts)
        s == [contexts |-> EmptyMap, next_priority |-> prio, saved_tools |-> << >>]
        check == SanityCheck(made.names, s, rcv, ok)
    IN IF e.raised
       THEN [raised |-> TRUE, emit |-> e, names |-> EmptyMap, suite |-> s]
       ELSE IF made.raised
            THEN [raised |-> TRUE, emit |-> e, names |-> EmptyMap, suite |-> s]
            ELSE IF check.raised
                 THEN [raised |-> TRUE, emit |-> check, names |-> EmptyMap,
                       suite |-> s]
                 ELSE [raised |-> FALSE, emit |-> e, names |-> made.names,
                       suite |-> s]

\* op = SuiteOp(seed): the operator is replaced when construction returns
construct(seed, ok) ==
    /\ LET r == Construct(seed, receivers, ok)
           view == IF seed.kind = "suite" THEN NameView(seed.contexts) ELSE << >>
       IN
       /\ ctx_names' = IF r.raised THEN ctx_names ELSE r.names
       /\ suite' = IF r.raised THEN suite ELSE r.suite
       /\ last' = [CallOn("init", r.emit, r.raised, view, DOMAIN ctx_names)
                        EXCEPT !.name = seed.kind]
    /\ UNCHANGED <<next_id, receivers, gen, widget>>

\* op = SuiteOp.from_dict(op.to_dict())
reopen(ok) ==
    /\ LET d == ToDict(ctx_names, suite, receivers, ok)
           r == Construct(SuiteFromDict(d.dict), receivers, ok)
           view == ContextView(ctx_names, suite)
       IN
       IF d.raised
       THEN /\ ctx_names' = ctx_names
            /\ suite' = d.suite
            /\ last' = CallOn("reopen", d.emit, TRUE, view, DOMAIN ctx_names)
       ELSE /\ ctx_names' = IF r.raised THEN ctx_names ELSE r.names
            /\ suite' = IF r.raised THEN d.suite ELSE r.suite
            /\ last' = CallOn("reopen", r.emit, r.raised, view, DOMAIN ctx_names)
    /\ UNCHANGED <<next_id, receivers, gen, widget>>

----------------------------------------------------------------------------
(* The environment *)

\* a listener connects to or disconnects from signal("sweet:error")
ToggleReceivers ==
    /\ receivers' = ~receivers
    /\ UNCHANGED <<ctx_names, suite, next_id, last, gen, widget>>

\* the call returns (or its exception arrives): the caller has its outcome
Return ==
    /\ last # Idle
    /\ last' = Idle
    /\ UNCHANGED <<ctx_names, suite, next_id, receivers, gen, widget>>

----------------------------------------------------------------------------

\* calls are made one at a time (spec.md 5: single-threaded, synchronous)
Next ==
    \/ Ready /\ \E name \in CtxNames, requests \in RequestLists :
                    add_context(name, requests)
    \/ Ready /\ \E id \in Ids : drop_context(id)
    \/ Ready /\ \E id \in Ids, name \in CtxNames : rename_context(id, name)
    \/ Ready /\ \E id \in Ids, a \in UpdateToolArgs :
                    update_tool(id, a[1], a[2], a[3])
    \/ Ready /\ \E ascending \in BOOLEAN : iter_contexts(ascending)
    \/ Ready /\ \E ok \in BOOLEAN : sanity_check(ok)
    \/ Ready /\ \E ok \in BOOLEAN : to_dict(ok)
    \/ Ready /\ \E seed \in Seeds, ok \in BOOLEAN : construct(seed, ok)
    \/ Ready /\ \E ok \in BOOLEAN : reopen(ok)
    \/ Ready /\ ToggleReceivers
    \/ Return

Spec == Init /\ [][Next]_vars

\* the calls that edit contexts, update_context among them, on a suite of at
\* most two contexts
NextEdit ==
    \/ Ready /\ \E name \in EditNames, requests \in EditRequests :
                    add_context(name, requests)
    \/ Ready /\ \E id \in Ids : drop_context(id)
    \/ Ready /\ \E id \in Ids, name \in EditNames : rename_context(id, name)
    \/ Ready /\ \E id \in Ids, a \in EditToolArgs :
                    update_tool(id, a[1], a[2], a[3])
    \/ Ready /\ \E id \in Ids, a \in UpdateContextArgs :
                    update_context(id, a[1], a[2], a[3])
    \/ Ready /\ ToggleReceivers
    \/ Return

SpecEdit == Init /\ [][NextEdit]_vars

\* a caller that keeps the result of a query across other calls
NextQuery ==
    \/ Ready /\ \E name \in EditNames : add_context(name, <<"foo">>)
    \/ Ready /\ \E id \in Ids : drop_context(id)
    \/ Ready /\ \E id \in Ids, name \in EditNames : rename_context(id, name)
    \/ Ready /\ \E id \in Ids : update_tool(id, "build", NoArg, "True")
    \/ Ready /\ \E id \in Ids, a \in {<<(<< >>), NoArg>>, <<NoRequests, "x">>} :
                    update_context(id, a[1], a[2], NoArg)
    \/ Ready /\ \E ascending \in BOOLEAN : hold_iter_contexts(ascending)
    \/ Ready /\ hold_iter_tools
    \/ Ready /\ consume
    \/ Return

SpecQuery == Init /\ [][NextQuery]_vars

\* sanity_check as a function of the two fields it compares: the fields hold
\* any map and any set of contexts over the ids, as after an exception between
\* the two writes of add_context (core.py 202-203) or of drop_context
\* (core.py 210-212), or an edit of the suite behind the operator
InitCheck ==
    /\ \E S \in SUBSET Ids : ctx_names \in [S -> CtxNames]
    /\ \E S \in SUBSET Ids :
          suite = [contexts |-> [i \in S |-> SeedContext(i, << >>)],
                   next_priority |-> MaxIds + 1, saved_tools |-> EmptyMap]
    /\ next_id = MaxIds + 1
    /\ receivers \in BOOLEAN
    /\ last = Idle
    /\ gen = NoGen
    /\ widget = NoWidget

NextCheck ==
    \/ Ready /\ \E ok \in BOOLEAN : sanity_check(ok)
    \/ Ready /\ ToggleReceivers
    \/ Return

SpecCheck == InitCheck /\ [][NextCheck]_vars

\* passes of iter_contexts and iter_tools repeated between other calls, the
\* calls that change nothing (to_dict, sanity_check, a listener attached or
\* detached) among them
NextPass ==
    \/ Ready /\ \E name \in EditNames : add_context(name, <<"foo">>)
    \/ Ready /\ \E id \in Ids : drop_context(id)
    \/ Ready /\ \E id \in Ids, name \in EditNames : rename_context(id, name)
    \/ Ready /\ \E id \in Ids, a \in EditToolArgs :
                    update_tool(id, a[1], a[2], a[3])
    \/ Ready /\ \E ascending \in BOOLEAN : pass_iter_contexts(ascending)
    \/ Ready /\ pass_iter_tools
    \/ Ready /\ \E ok \in BOOLEAN : sanity_check(ok)
    \/ Ready /\ \E ok \in BOOLEAN : to_dict(ok)
    \/ Ready /\ ToggleReceivers
    \/ Return

SpecPass == Init /\ [][NextPass]_vars

\* the alias and hide overrides, set and taken back
NextOverride ==
    \/ Ready /\ \E name \in EditNames, requests \in {<<"foo">>, << >>} :
                    add_context(name, requests)
    \/ Ready /\ \E id \in Ids : drop_context(id)
    \/ Ready /\ \E id \in Ids, a \in OverrideArgs :
                    update_tool(id, a[1], a[2], a[3])
    \/ Ready /\ \E id \in Ids, tool_name \in ToolNames : hide_unhide(id, tool_name)
    \/ Ready /\ \E id \in Ids, tool_name \in ToolNames :
                    alias_unalias(id, tool_name, "go")
    \/ Ready /\ \E id \in Ids : alias_realias(id, "run", "go", "build")
    \/ Ready /\ ToggleReceivers
    \/ Return

SpecOverride == Init /\ [][NextOverride]_vars

\* iter_tools as a function of a suite with saved tools: the operator is one
\* over a loaded suite (SweetSuite.load, core.py 351), holding up to two
\* contexts and the saved tools of some of them
InitTools ==
    /\ \E S \in SUBSET DOMAIN LoadedNames :
         \E c \in [S -> LoadedContexts], P \in SUBSET Range(SavedEntries) :
            /\ ctx_names = [i \in S |-> LoadedNames[i]]
            /\ suite = [contexts |-> [i \in S |-> [c[i] EXCEPT !.priority = i]],
                        next_priority |-> Cardinality(DOMAIN LoadedNames) + 1,
                        saved_tools |->
                            SelectSeq(SavedEntries,
                                LAMBDA d : d \in P /\ d.context_name \in S)]
    /\ next_id = Cardinality(DOMAIN LoadedNames) + 1
    /\ receivers \in BOOLEAN
    /\ last = Idle
    /\ gen = NoGen
    /\ widget = NoWidget

NextTools ==
    \/ Ready /\ iter_tools
    \/ Ready /\ \E id \in DOMAIN LoadedNames, a \in UpdateToolArgs :
                    update_tool(id, a[1], a[2], a[3])
    \/ Ready /\ \E id \in DOMAIN LoadedNames, requests \in {<<"foo">>, << >>} :
                    update_context(id, requests, NoArg, NoArg)
    \/ Return

SpecTools == InitTools /\ [][NextTools]_vars

----------------------------------------------------------------------------
(* gui.widgets: the widgets are studied apart from the operator, which the
   steps below leave alone *)

SuiteOpVars == <<ctx_names, suite, next_id, receivers, last, gen>>

InitSuiteOp ==
    /\ ctx_names = EmptyMap
    /\ suite = EmptySuite
    /\ next_id = 1
    /\ receivers = FALSE
    /\ last = Idle
    /\ gen = NoGen

(* BusyWidget *)

BusyWidgets == 1 .. MaxWidgets

\* BusyWidget._over_busy_cursor(over) of widget w: QApplication keeps a stack
\* of override cursors, and restoreOverrideCursor on an empty stack does
\* nothing; `balance` is what w has pushed less what it has restored
OverBusyCursor(st, w, over) ==
    IF over
    THEN [st EXCEPT !.cursors = @ + 1, !.balance[w] = @ + 1]
    ELSE [st EXCEPT !.cursors = IF @ > 0 THEN @ - 1 ELSE 0, !.balance[w] = @ - 1]

\* BusyWidget._block_children(block): the filter is installed on, or removed
\* from, every child and the widget itself
BlockChildren(st, w, block) ==
    [st EXCEPT !.filtered[w] = IF block THEN {"self", "child"} ELSE {}]

\* variant of SetOverwhelmed: the current value is not compared with the new
SetOverwhelmedAlways(st, w, busy) ==
    LET s1 == [st EXCEPT !._is_busy[w] = busy]
        s2 == IF st._entered[w] THEN OverBusyCursor(s1, w, busy) ELSE s1
    IN BlockChildren(s2, w, busy)

\* BusyWidget.set_overwhelmed(busy)
SetOverwhelmed(st, w, busy) ==
    IF st._is_busy[w] = busy THEN st
    ELSE LET s1 == [st EXCEPT !._is_busy[w] = busy]
             s2 == IF st._entered[w] THEN OverBusyCursor(s1, w, busy) ELSE s1
         IN BlockChildren(s2, w, busy)

\* BusyWidget.enterEvent(event)
EnterEvent(st, w) ==
    LET s1 == IF st._is_busy[w] THEN OverBusyCursor(st, w, TRUE) ELSE st
    IN [s1 EXCEPT !._entered[w] = TRUE]

\* BusyWidget.leaveEvent(event)
LeaveEvent(st, w) ==
    LET s1 == IF st._is_busy[w] THEN OverBusyCursor(st, w, FALSE) ELSE st
    IN [s1 EXCEPT !._entered[w] = FALSE]

BusyEvent(op, w, busy) == [op |-> op, w |-> w, busy |-> busy]

\* BusyWidget.__init__ of every instance: not busy, the pointer outside
InitBusy ==
    /\ InitSuiteOp
    /\ widget = [kind |-> "BusyWidget",
                 _is_busy |-> [w \in BusyWidgets |-> FALSE],
                 _entered |-> [w \in BusyWidgets |-> FALSE],
                 filtered |-> [w \in BusyWidgets |-> {}],
                 balance |-> [w \in BusyWidgets |-> 0],
                 cursors |-> 0,
                 event |-> BusyEvent("init", 0, FALSE)]

set_overwhelmed(w, busy) ==
    /\ widget' = [SetOverwhelmed(widget, w, busy)
                    EXCEPT !.event = BusyEvent("set_overwhelmed", w, busy)]
    /\ UNCHANGED SuiteOpVars

\* Qt sends Enter to a widget the pointer is not in
enterEvent(w) ==
    /\ ~widget._entered[w]
    /\ widget' = [EnterEvent(widget, w) EXCEPT !.event = BusyEvent("enterEvent", w, FALSE)]
    /\ UNCHANGED SuiteOpVars

\* Qt sends Leave to a widget the pointer is in
leaveEvent(w) ==
    /\ widget._entered[w]
    /\ widget' = [LeaveEvent(widget, w) EXCEPT !.event = BusyEvent("leaveEvent", w, FALSE)]
    /\ UNCHANGED SuiteOpVars

NextBusy ==
    \/ \E w \in BusyWidgets, busy \in BOOLEAN : set_overwhelmed(w, busy)
    \/ \E w \in BusyWidgets : enterEvent(w)
    \/ \E w \in BusyWidgets : leaveEvent(w)

SpecBusy == InitBusy /\ [][NextBusy]_vars

(* Python lists, positions counted from 1 *)

\* list.index(x), for an x the list holds
ListIndex(seq, x) == CHOOSE i \in DOMAIN seq : seq[i] = x /\ \A j \in 1 .. i - 1 : seq[j] # x

\* list.pop(i)
ListPop(seq, i) == SubSeq(seq, 1, i - 1) \o SubSeq(seq, i + 1, Len(seq))

\* list.remove(x), for an x the list holds
ListRemove(seq, x) == ListPop(seq, ListIndex(seq, x))

\* list.insert(i, x)
ListInsert(seq, i, x) == SubSeq(seq, 1, i - 1) \o <<x>> \o SubSeq(seq, i, Len(seq))

(* NameStackedBase, with the panels StackedRequestWidget and
   StackedResolveWidget create *)

\* ContextRequestWidget.callbacks, ContextResolveWidget.callbacks: the
\* operations a panel answers; ":added:" and ":renamed:" are set_context
PanelCallbacks == {":added:", ":renamed:", ":resolved:"}

\* ContextRequestWidget.__init__: self._name = None
NewPanel(enabled) == [enabled |-> enabled, _name |-> "None"]

\* NameStackedBase.add_panel(enabled): insertWidget(0, panel)
AddPanel(st, enabled) == [st EXCEPT !.panels = <<NewPanel(enabled)>> \o @]

\* set_context(ctx), called on the panel at index: the panel takes the name
SetContext(st, index, name) == [st EXCEPT !.panels[index]._name = name]

\* NameStackedBase._add_panel_0
AddPanel0(st) == SetContext(AddPanel(st, FALSE), 1, "")

\* NameStackedBase.run_panel_callback(index, op_name, arg)
RunPanelCallback(st, index, op_name, name) ==
    IF op_name \in st._callbacks[index] /\ op_name \in {":added:", ":renamed:"}
    THEN SetContext(st, index, name)
    ELSE st

\* variant of OnContextAdded: the name and the callbacks are put last
OnContextAddedAppends(st, name) ==
    LET s1 == IF Len(st._names) = 0
              THEN [st EXCEPT !.panels[1].enabled = TRUE]
              ELSE AddPanel(st, TRUE)
        s2 == [s1 EXCEPT !._names = Append(@, name),
                         !._callbacks = Append(@, PanelCallbacks)]
    IN RunPanelCallback(s2, 1, ":added:", name)

\* NameStackedBase.on_context_added(ctx)
OnContextAdded(st, name) ==
    LET s1 == IF Len(st._names) = 0
              THEN [st EXCEPT !.panels[1].enabled = TRUE]
              ELSE AddPanel(st, TRUE)
        s2 == [s1 EXCEPT !._names = ListInsert(@, 1, name),
                         !._callbacks = ListInsert(@, 1, PanelCallbacks)]
    IN RunPanelCallback(s2, 1, ":added:", name)

\* NameStackedBase.on_context_renamed(name, new_name)
OnContextRenamed(st, name, new_name) ==
    LET index == ListIndex(st._names, name)
        s1 == RunPanelCallback(st, index, ":renamed:", new_name)
    IN [s1 EXCEPT !._names = ListInsert(ListRemove(@, name), index, new_name)]

\* NameStackedBase.on_context_dropped(name)
OnContextDropped(st, name) ==
    LET index == ListIndex(st._names, name)
        s1 == [st EXCEPT !._callbacks = ListPop(@, index),
                         !._names = ListRemove(@, name),
                         !.panels = ListPop(@, index)]
    IN IF Len(s1._names) = 0 THEN AddPanel0(s1) ELSE s1

\* NameStackedBase.on_suite_newed
OnSuiteNewed(st) ==
    AddPanel0([st EXCEPT !._callbacks = << >>, !.panels = << >>, !._names = << >>])

\* the names the contexts shown in a stack are given
PanelNames == CtxNames \cup {"d"}

StackEvent(op, name, new_name) == [op |-> op, name |-> name, new_name |-> new_name]

\* NameStackedBase.__init__
InitStack ==
    /\ InitSuiteOp
    /\ widget = AddPanel0([kind |-> "NameStackedBase",
                           _names |-> << >>,
                           _callbacks |-> << >>,
                           panels |-> << >>,
                           event |-> StackEvent("init", "", "")])

\* the names of the operator's contexts are distinct: a context that is
\* announced has a name no announced context has
on_context_added(name) ==
    /\ Len(widget._names) < MaxPanels
    /\ name \notin Range(widget._names)
    /\ widget' = [OnContextAdded(widget, name)
                    EXCEPT !.event = StackEvent("on_context_added", name, "")]
    /\ UNCHANGED SuiteOpVars

on_context_renamed(name, new_name) ==
    /\ name \in Range(widget._names)
    /\ new_name \notin Range(widget._names)
    /\ widget' = [OnContextRenamed(widget, name, new_name)
                    EXCEPT !.event = StackEvent("on_context_renamed", name, new_name)]
    /\ UNCHANGED SuiteOpVars

on_context_dropped(name) ==
    /\ name \in Range(widget._names)
    /\ widget' = [OnContextDropped(widget, name)
                    EXCEPT !.event = StackEvent("on_context_dropped", name, "")]
    /\ UNCHANGED SuiteOpVars

on_suite_newed ==
    /\ widget' = [OnSuiteNewed(widget) EXCEPT !.event = StackEvent("on_suite_newed", "", "")]
    /\ UNCHANGED SuiteOpVars

NextStack ==
    \/ \E name \in PanelNames : on_context_added(name)
    \/ \E name, new_name \in PanelNames : on_context_renamed(name, new_name)
    \/ \E name \in PanelNames : on_context_dropped(name)
    \/ on_suite_newed

SpecStack == InitStack /\ [][NextStack]_vars

(* ContextListWidget with its naming dialog: a YesNoDialog around a
   ContextNameEditWidget, whose line is a ValidNameLineEdit *)

\* what can be typed in the line: RegExpValidator lets no other text in
Texts == CtxNames \cup {"", "d"}

NoSignal == [sig |-> "none", name |-> "", new_name |-> ""]

Closed == [open |-> "none", old_name |-> "", _blacklist |-> {}, text |-> "",
           _name |-> "", accept |-> FALSE, message |-> ""]

\* ContextNameEditWidget.__init__(existing, default) inside YesNoDialog.__init__:
\* the line is given the default before textChanged has a receiver, and
\* validated.emit(bool(default)) is sent before validated has one; _name is
\* "", and the dialog disables Accept since the widget has `validated`
OpenDialog(title, existing, default) ==
    [open |-> title, old_name |-> default, _blacklist |-> existing, text |-> default,
     _name |-> "", accept |-> FALSE, message |-> ""]

\* textChanged(value): ValidNameLineEdit._on_changed_check_blacklist, whose
\* `validated` reaches Accept's setEnabled, then
\* ContextNameEditWidget._on_text_changed
OnTextChanged(d, value) ==
    LET is_blacked == value \in d._blacklist
    IN [d EXCEPT !.text = value,
                 !.message = IF is_blacked THEN "Duplicated Name." ELSE "",
                 !.accept = ~is_blacked /\ value # "",
                 !._name = value]

\* on_finished(result) of add_context and of rename_context
OnFinished(d, result) ==
    IF ~result THEN NoSignal
    ELSE IF d.open = "add" THEN [sig |-> "added", name |-> d._name, new_name |-> ""]
    ELSE IF d.old_name # d._name
         THEN [sig |-> "renamed", name |-> d.old_name, new_name |-> d._name]
         ELSE NoSignal

ListWidget(names, dialog, emitted, event) ==
    [kind |-> "ContextListWidget", names |-> names, dialog |-> dialog,
     emitted |-> emitted, event |-> event]

\* the view lists the contexts of the suite, whose names are distinct
InitList ==
    /\ InitSuiteOp
    /\ \E names \in SUBSET CtxNames : widget = ListWidget(names, Closed, NoSignal, "init")

\* ContextListWidget.add_context
list_add_context ==
    /\ widget.dialog.open = "none"
    /\ widget' = ListWidget(widget.names, OpenDialog("add", widget.names, ""),
                            NoSignal, "add_context")
    /\ UNCHANGED SuiteOpVars

\* ContextListWidget.rename_context(item)
list_rename_context(old_name) ==
    /\ widget.dialog.open = "none"
    /\ old_name \in widget.names
    /\ widget' = ListWidget(widget.names,
                            OpenDialog("rename", widget.names \ {old_name}, old_name),
                            NoSignal, "rename_context")
    /\ UNCHANGED SuiteOpVars

\* the text of the line is edited
textChanged(value) ==
    /\ widget.dialog.open # "none"
    /\ value # widget.dialog.text
    /\ widget' = ListWidget(widget.names, OnTextChanged(widget.dialog, value),
                            NoSignal, "textChanged")
    /\ UNCHANGED SuiteOpVars

\* a character the validator refuses is typed:
\* ValidNameLineEdit._on_validator_validated(Invalid), the text stays
invalidChar ==
    /\ widget.dialog.open # "none"
    /\ widget' = ListWidget(widget.names, [widget.dialog EXCEPT !.message = "Invalid char."],
                            NoSignal, "invalidChar")
    /\ UNCHANGED SuiteOpVars

\* Accept is clicked, which an enabled button alone lets happen: done(Accepted)
accept ==
    /\ widget.dialog.open # "none"
    /\ widget.dialog.accept
    /\ widget' = ListWidget(widget.names, Closed, OnFinished(widget.dialog, TRUE), "accept")
    /\ UNCHANGED SuiteOpVars

\* Cancel is clicked: done(Rejected)
reject ==
    /\ widget.dialog.open # "none"
    /\ widget' = ListWidget(widget.names, Closed, OnFinished(widget.dialog, FALSE), "reject")
    /\ UNCHANGED SuiteOpVars

NextList ==
    \/ list_add_context
    \/ \E old_name \in CtxNames : list_rename_context(old_name)
    \/ \E value \in Texts : textChanged(value)
    \/ invalidChar
    \/ accept
    \/ reject

SpecList == InitList /\ [][NextList]_vars

(* ContextResolveWidget: the stash of resolved contexts and the diff switch *)

\* the resolved contexts, told apart by ==
Resolved == 1 .. MaxStash

\* self._staged = None
NoneStaged == 0

\* ContextResolveWidget.stage_to_diff(index)
StageToDiff(st, index) == [st EXCEPT !._staged = st._stashes[index]]

\* variant of StashContext: the stash is not searched for the context
StashContextAlways(st, context) ==
    StageToDiff([st EXCEPT !._stashes = ListInsert(@, 1, context)], 1)

\* ContextResolveWidget.stash_context(context)
StashContext(st, context) ==
    IF context \in Range(st._stashes) THEN st
    ELSE StageToDiff([st EXCEPT !._stashes = ListInsert(@, 1, context)], 1)

\* the switch is clicked and sends toggled(on):
\* ContextResolveWidget._on_diff_toggled(on), whose setChecked(False) sends
\* toggled(False), on which nothing is done
OnDiffToggled(st) ==
    LET on == ~st.diff
    IN IF on /\ st._staged = NoneStaged
       THEN [st EXCEPT !.diff = FALSE]
       ELSE [st EXCEPT !.diff = on]

ResolveEvent(op, arg) == [op |-> op, arg |-> arg]

\* ContextResolveWidget.__init__
InitResolve ==
    /\ InitSuiteOp
    /\ widget = [kind |-> "ContextResolveWidget",
                 _stashes |-> << >>,
                 _staged |-> NoneStaged,
                 diff |-> FALSE,
                 event |-> ResolveEvent("init", 0)]

stash_context(context) ==
    /\ widget' = [StashContext(widget, context)
                    EXCEPT !.event = ResolveEvent("stash_context", context)]
    /\ UNCHANGED SuiteOpVars

\* an entry of the stash menu is chosen; the menu lists the stash
stage_to_diff(index) ==
    /\ index \in DOMAIN widget._stashes
    /\ widget' = [StageToDiff(widget, index)
                    EXCEPT !.event = ResolveEvent("stage_to_diff", index)]
    /\ UNCHANGED SuiteOpVars

diff_toggled ==
    /\ widget' = [OnDiffToggled(widget) EXCEPT !.event = ResolveEvent("diff_toggled", 0)]
    /\ UNCHANGED SuiteOpVars

NextResolve ==
    \/ \E context \in Resolved : stash_context(context)
    \/ \E index \in 1 .. MaxStash : stage_to_diff(index)
    \/ diff_toggled

SpecResolve == InitResolve /\ [][NextResolve]_vars

----------------------------------------------------------------------------
(* Vocabulary of the properties *)

\* this step is a call of `op` on the operator
Called(op) == Ready /\ last'.op = op

\* the (ctx_id, tool) pairs a suite exposes un-hidden under `alias`, read off
\* the contexts
Exposed(s, alias) ==
    {p \in (DOMAIN s.contexts) \X ToolNames :
        /\ \E k \in DOMAIN s.contexts[p[1]].tools : s.contexts[p[1]].tools[k] = p[2]
        /\ p[2] \notin s.contexts[p[1]].hidden_tools
        /\ ToolAlias(s.contexts[p[1]], p[2]) = alias}

Exposers(s, alias) == {p[1] : p \in Exposed(s, alias)}

\* the context of S with the highest priority
Top(s, S) ==
    CHOOSE i \in S : \A j \in S : s.contexts[j].priority <= s.contexts[i].priority

\* every alias some tool of the suite has
AliasesOf(s) ==
    UNION {{ToolAlias(s.contexts[i], s.contexts[i].tools[k]) :
                k \in DOMAIN s.contexts[i].tools} : i \in DOMAIN s.contexts}

\* the records iter_tools yields with this alias and status
Reported(names, s, alias, invalid) ==
    {r \in Range(IterTools(names, s)) : r.alias = alias /\ r.invalid = invalid}

----------------------------------------------------------------------------
(* Properties *)

\* C1: after any sequence of calls the ctx_ids of the id-to-name map are
\* exactly the context ids of the underlying suite, and no two ctx_ids map to
\* the same name.
C1_IdentityMapConsistent ==
    /\ DOMAIN ctx_names = DOMAIN suite.contexts
    /\ \A i, j \in DOMAIN ctx_names : ctx_names[i] = ctx_names[j] => i = j

\* C1 witness: two contexts are left after an add, a drop and a rename.
C1_Witness ==
    /\ last.op = "rename_context" /\ last.err = "none"
    /\ Cardinality(DOMAIN ctx_names) = 2
    /\ next_id - 1 > Cardinality(DOMAIN ctx_names)

\* C2: for every alias two or more contexts expose un-hidden, iter_tools
\* reports a tool of the highest-priority such context as visible and the
\* tools of every other such context as shadowed.
C2_HighestPriorityVisible ==
    \A alias \in AliasesOf(suite) :
        LET ex == Exposed(suite, alias)
            top == Top(suite, Exposers(suite, alias))
        IN Cardinality(Exposers(suite, alias)) >= 2 =>
            /\ {r.ctx_id : r \in Reported(ctx_names, suite, alias, it_visible)} = {top}
            /\ \A p \in ex : p[1] # top =>
                  /\ \E r \in Reported(ctx_names, suite, alias, it_shadowed) :
                        r.ctx_id = p[1] /\ r.name = p[2]
                  /\ ~\E r \in Reported(ctx_names, suite, alias, it_visible) :
                        r.ctx_id = p[1]

\* C2 witness: three contexts of priorities 3, 2, 1 all expose "build".
C2_Witness ==
    /\ Exposers(suite, "build") = {1, 2, 3}
    /\ \A i \in {1, 2, 3} : suite.contexts[i].priority = i
    /\ \E r \in Reported(ctx_names, suite, "build", it_visible) : r.ctx_id = 3
    /\ {r.ctx_id : r \in Reported(ctx_names, suite, "build", it_shadowed)} = {1, 2}


\* this step is update_tool(id, tool, set_hidden=True) hiding a tool that
\* iter_tools reported as visible under `alias`
HidesVisible(id, tool, alias) ==
    /\ Called("update_tool") /\ last'.ctx_id = id /\ last'.name = tool
    /\ id \in DOMAIN suite.contexts
    /\ tool \notin suite.contexts[id].hidden_tools
    /\ tool \in suite'.contexts[id].hidden_tools
    /\ \E r \in Reported(ctx_names, suite, alias, it_visible) :
            r.ctx_id = id /\ r.name = tool

\* C3 as claimed: after the owner of the visible tool of an alias hides it,
\* the visible tool of the alias is one of the next-highest-priority context
\* (the highest among the other contexts) exposing the alias, and an alias
\* some context exposes un-hidden is never without a visible entry.
C3_NextContextTakesOver ==
    [][\A id \in Ids, tool \in ToolNames, alias \in AliasesOf(suite) :
        HidesVisible(id, tool, alias) =>
            /\ Exposers(suite', alias) \ {id} # {} =>
                  {r.ctx_id : r \in Reported(ctx_names', suite', alias, it_visible)}
                      = {Top(suite', Exposers(suite', alias) \ {id})}
            /\ \A a \in AliasesOf(suite') : Exposers(suite', a) # {} =>
                  Reported(ctx_names', suite', a, it_visible) # {}]_vars

\* C3 amended: after the owner of the visible tool of an alias hides it, the
\* visible tool of the alias is one of the highest-priority context that still
\* exposes the alias un-hidden: the next-highest-priority context, unless the
\* hiding context exposes a second tool under that alias; an alias some
\* context exposes un-hidden is never without a visible entry.
C3_HighestExposerTakesOver ==
    [][\A id \in Ids, tool \in ToolNames, alias \in AliasesOf(suite) :
        HidesVisible(id, tool, alias) =>
            /\ Exposers(suite', alias) # {} =>
                  {r.ctx_id : r \in Reported(ctx_names', suite', alias, it_visible)}
                      = {Top(suite', Exposers(suite', alias))}
            /\ (id \notin Exposers(suite', alias) /\ Exposers(suite', alias) # {}) =>
                  {r.ctx_id : r \in Reported(ctx_names', suite', alias, it_visible)}
                      = {Top(suite', Exposers(suite', alias) \ {id})}
            /\ \A a \in AliasesOf(suite') : Exposers(suite', a) # {} =>
                  Reported(ctx_names', suite', a, it_visible) # {}]_vars

\* C3 witness: context 3 (priority 3) has hidden its "build", which was
\* visible, and the "build" of context 2 is now the visible one.
C3_Witness ==
    /\ last.op = "update_tool" /\ last.ctx_id = 3 /\ last.name = "build"
    /\ last.err = "none"
    /\ "build" \in suite.contexts[3].hidden_tools
    /\ Exposers(suite, "build") = {1, 2}
    /\ {r.ctx_id : r \in Reported(ctx_names, suite, "build", it_visible)} = {2}

\* C4: add_context with a name that is already the name of a context reports
\* a duplicate-name error (sent to the listeners, or raised when there are
\* none) and changes neither the identity map nor the context collection:
\* exactly one context has that name.
C4_DuplicateNameAddsNothing ==
    [][(Called("add_context") /\ last'.name \in Values(ctx_names)) =>
        /\ last'.err = "dup" /\ ~last'.fatal
        /\ (last'.sent \/ last'.raised)
        /\ ctx_names' = ctx_names
        /\ suite' = suite
        /\ next_id' = next_id
        /\ Cardinality({i \in DOMAIN ctx_names' : ctx_names'[i] = last'.name}) = 1]_vars

\* C4 witness: a second add_context("a", ...) was refused and one context is
\* named "a".
C4_Witness ==
    /\ last.op = "add_context" /\ last.name = "a" /\ last.err = "dup"
    /\ last.sent
    /\ Cardinality({i \in DOMAIN ctx_names : ctx_names[i] = "a"}) = 1

\* C5: rename_context(ctx_id, new_name) with new_name the current name of
\* that same context succeeds, no error reported or raised, and leaves the
\* identity map and the output of iter_tools unchanged.
C5_RenameToOwnNameSucceeds ==
    [][(/\ Called("rename_context")
        /\ last'.ctx_id \in DOMAIN suite.contexts
        /\ last'.ctx_id \in DOMAIN ctx_names
        /\ ctx_names[last'.ctx_id] = last'.name) =>
        /\ last'.err = "none" /\ ~last'.sent /\ ~last'.raised
        /\ ctx_names' = ctx_names
        /\ IterTools(ctx_names', suite') = IterTools(ctx_names, suite)]_vars

\* the resolution of these requests fails: the engine raises, or returns a
\* context that is not resolved
ResolutionFails(requests) ==
    ResolvedContext(requests).raised \/ ~ResolvedContext(requests).success

\* the contexts a step has added
Added == (DOMAIN suite'.contexts) \ (DOMAIN suite.contexts)

C7_RoundTripPreservesContexts ==
    (last.op = "reopen" /\ last.err = "none") =>
        /\ ~last.raised
        /\ ContextView(ctx_names, suite) = last.view
        /\ (DOMAIN ctx_names) \cap last.ids = {}

\* C8: constructing a SuiteOp from a seed suite holding n >= 1 contexts
\* completes and yields n contexts keyed by distinct new ctx_ids, the
\* id-to-name map holding exactly the seed's names, sanity check passing.
C8_ConstructFromSeed ==
    (last.op = "init" /\ last.name = "suite" /\ Len(last.view) >= 1) =>
        /\ ~last.raised
        /\ Cardinality(DOMAIN suite.contexts) = Len(last.view)
        /\ DOMAIN ctx_names = DOMAIN suite.contexts
        /\ Cardinality(DOMAIN ctx_names) = Len(last.view)
        /\ Values(ctx_names) = {last.view[k].name : k \in DOMAIN last.view}
        /\ (DOMAIN ctx_names) \cap last.ids = {}
        /\ SanityCheck(ctx_names, suite, receivers, TRUE).err = "none"

\* C9: drop_context of a ctx_id that is not in the suite reports and raises
\* nothing and changes neither the identity map nor the context collection;
\* sanity_check still passes.
C9_DropUnknownIsNoOp ==
    [][(Called("drop_context") /\ last'.ctx_id \notin DOMAIN suite.contexts) =>
        /\ last'.err = "none" /\ ~last'.sent /\ ~last'.raised
        /\ ctx_names' = ctx_names
        /\ suite' = suite
        /\ SanityCheck(ctx_names', suite', receivers', TRUE).err = "none"]_vars

\* C9 witness: drop_context was called with a ctx_id no context ever had,
\* while the suite holds contexts.
C9_Witness ==
    /\ last.op = "drop_context" /\ last.ctx_id >= next_id
    /\ ~last.raised
    /\ DOMAIN suite.contexts # {}

\* C10: an error handed to the channel while no listener is attached is
\* raised; while a listener is attached it is sent to the listener and raised
\* afterwards exactly when it is fatal.  No error is dropped without a
\* notification or a raise.
C10_ErrorChannel ==
    [][(Ready /\ last'.err # "none") =>
        /\ ~receivers => (last'.raised /\ ~last'.sent)
        /\ receivers => (last'.sent /\ (last'.raised <=> last'.fatal))
        /\ (last'.sent \/ last'.raised)]_vars

\* C10 witness: a fatal error was sent to a listener and raised (and the
\* non-fatal case is C4's or C6's witness).
C10_Witness ==
    /\ last.err = "invalid" /\ last.fatal
    /\ last.sent /\ last.raised

\* the identity map and the suite disagree: a mapped id has no context, a
\* context has no mapped id, or two ids share a name
BijectionBroken ==
    \/ \E id \in DOMAIN ctx_names : id \notin DOMAIN suite.contexts
    \/ \E id \in DOMAIN suite.contexts : id \notin DOMAIN ctx_names
    \/ \E i, j \in DOMAIN ctx_names : i # j /\ ctx_names[i] = ctx_names[j]

\* C11: sanity_check raises a fatal error, listener or not, in every state
\* where the ctx_ids of the identity map and the context ids of the suite
\* differ (either way round) or two ids share a name; it raises nothing when
\* the bijection holds and the suite validates.
C11_SanityCheckDetectsMismatch ==
    [][Called("sanity_check") =>
        /\ BijectionBroken => (last'.raised /\ last'.fatal)
        /\ (~BijectionBroken /\ last'.valid) =>
              (~last'.raised /\ last'.err = "none")]_vars

\* C12: a rename_context that fails, ctx_id being no context of the suite or
\* new_name being the name of a different context, reports a non-fatal error
\* through the channel (sent to the listeners, raised when there are none)
\* and leaves the identity map and the context collection as they were.
C12_FailedRenameChangesNothing ==
    [][(/\ Called("rename_context")
        /\ \/ last'.ctx_id \notin DOMAIN suite.contexts
           \/ \E j \in DOMAIN ctx_names :
                 j # last'.ctx_id /\ ctx_names[j] = last'.name) =>
        /\ last'.err = (IF last'.ctx_id \notin DOMAIN suite.contexts
                        THEN "unknown" ELSE "dup")
        /\ ~last'.fatal
        /\ (last'.sent \/ last'.raised)
        /\ ctx_names' = ctx_names
        /\ suite' = suite]_vars

\* C12 witness: a context was to be renamed to the name of another context;
\* the listener got the error and both kept their names.
C12_Witness ==
    /\ last.op = "rename_context" /\ last.err = "dup" /\ last.sent
    /\ last.ctx_id \in DOMAIN ctx_names
    /\ ctx_names[last.ctx_id] # last.name
    /\ \E j \in DOMAIN ctx_names : j # last.ctx_id /\ ctx_names[j] = last.name

\* the records of iter_tools without their ctx_name
ToolsSansCtxName(names, s) ==
    LET all == IterTools(names, s) IN
    [k \in DOMAIN all |->
        [name |-> all[k].name, alias |-> all[k].alias,
         invalid |-> all[k].invalid, ctx_id |-> all[k].ctx_id]]

\* C13: a successful rename_context(ctx_id, new_name) changes only the name
\* bound to ctx_id: the set of ctx_ids, every context's data and every other
\* id's name are unchanged, and every tool iter_tools reports keeps its name,
\* alias, status and ctx_id; the ctx_name changes for the tools of the renamed
\* context only.
C13_RenameChangesOnlyTheName ==
    [][(Called("rename_context") /\ last'.err = "none") =>
        /\ DOMAIN ctx_names' = DOMAIN ctx_names
        /\ ctx_names'[last'.ctx_id] = last'.name
        /\ \A j \in DOMAIN ctx_names :
              j # last'.ctx_id => ctx_names'[j] = ctx_names[j]
        /\ suite' = suite
        /\ next_id' = next_id
        /\ ToolsSansCtxName(ctx_names', suite')
              = ToolsSansCtxName(ctx_names, suite)
        /\ \A k \in DOMAIN IterTools(ctx_names', suite') :
              IterTools(ctx_names', suite')[k].ctx_name =
                  IF IterTools(ctx_names, suite)[k].ctx_id = last'.ctx_id
                  THEN last'.name
                  ELSE IterTools(ctx_names, suite)[k].ctx_name]_vars

\* C13 witness: context 1 was renamed while contexts 1 and 2 both contribute
\* tools; the tools of 1 carry the new name, those of 2 the name of 2.
C13_Witness ==
    /\ last.op = "rename_context" /\ last.err = "none" /\ last.ctx_id = 1
    /\ {1, 2} \subseteq DOMAIN ctx_names
    /\ \E r \in Range(IterTools(ctx_names, suite)) :
          r.ctx_id = 1 /\ r.ctx_name = last.name
    /\ \E r \in Range(IterTools(ctx_names, suite)) :
          r.ctx_id = 2 /\ r.ctx_name = ctx_names[2]

\* C17: update_tool with a tool that is no tool of the given context reports
\* a non-fatal error and changes nothing, whichever of new_alias and
\* set_hidden are supplied.
C17_UnmatchedToolChangesNothing ==
    [][(/\ Called("update_tool")
        /\ ~SuiteValidateTool(suite, last'.ctx_id, last'.name)) =>
        /\ last'.err = "tool" /\ ~last'.fatal
        /\ (last'.sent \/ last'.raised)
        /\ suite' = suite
        /\ ctx_names' = ctx_names]_vars

\* C17 witness: update_tool(ctx_id, "build", new_alias="", set_hidden=True)
\* on a context that resolves no tool "build": the error was sent to the
\* listener and the context has neither an alias nor a hidden tool.
C17_Witness ==
    /\ last.op = "update_tool" /\ last.err = "tool" /\ last.sent
    /\ last.new_alias # NoArg /\ last.set_hidden # NoArg
    /\ last.ctx_id \in DOMAIN suite.contexts
    /\ suite.contexts[last.ctx_id].hidden_tools = {}
    /\ DOMAIN suite.contexts[last.ctx_id].tool_aliases = {}

\* C14: update_context with a ctx_id that is no context of the suite, a
\* listener being attached, sends an error through the channel, raises
\* nothing and changes no context and no identity binding.
C14_UnknownIdIsReported ==
    [][(/\ Called("update_context")
        /\ last'.ctx_id \notin DOMAIN suite.contexts
        /\ receivers) =>
        /\ last'.err # "none" /\ last'.sent /\ ~last'.fatal
        /\ ~last'.raised
        /\ suite' = suite
        /\ ctx_names' = ctx_names]_vars

\* the resolution a context holds
Resolution(c) == [requests |-> c.requests, success |-> c.success, tools |-> c.tools]

\* C15: update_context changes only the fields supplied: without requests the
\* context's requests and resolution stay, without prefix its prefix stays,
\* without suffix its suffix stays; its priority and tool overrides, every
\* other context and the identity map stay in all cases.
C15_OmittedFieldsUntouched ==
    [][Called("update_context") =>
        /\ ctx_names' = ctx_names
        /\ next_id' = next_id
        /\ DOMAIN suite'.contexts = DOMAIN suite.contexts
        /\ \A j \in DOMAIN suite.contexts :
              IF j # last'.ctx_id
              THEN suite'.contexts[j] = suite.contexts[j]
              ELSE /\ last'.requests = NoRequests =>
                        Resolution(suite'.contexts[j]) = Resolution(suite.contexts[j])
                   /\ last'.prefix = NoArg =>
                        suite'.contexts[j].prefix = suite.contexts[j].prefix
                   /\ last'.suffix = NoArg =>
                        suite'.contexts[j].suffix = suite.contexts[j].suffix
                   /\ suite'.contexts[j].priority = suite.contexts[j].priority
                   /\ suite'.contexts[j].tool_aliases = suite.contexts[j].tool_aliases
                   /\ suite'.contexts[j].hidden_tools = suite.contexts[j].hidden_tools]_vars

\* C15 witness: update_context(ctx_id, prefix="x") on a context that resolves
\* ["foo"] and has the suffix "y", next to a second context: the prefix is
\* set, requests, tools and suffix are as before.
C15_Witness ==
    /\ last.op = "update_context" /\ ~last.raised
    /\ last.requests = NoRequests /\ last.prefix = "x" /\ last.suffix = NoArg
    /\ last.ctx_id \in DOMAIN suite.contexts
    /\ suite.contexts[last.ctx_id].prefix = "x"
    /\ suite.contexts[last.ctx_id].suffix = "y"
    /\ suite.contexts[last.ctx_id].requests = <<"foo">>
    /\ suite.contexts[last.ctx_id].tools = <<"build", "run">>
    /\ Cardinality(DOMAIN suite.contexts) = 2

\* this step is an add_context (of a name not in use) or an update_context
\* (of a context of the suite) during which the engine raises
EngineRaisesDuring ==
    /\ ResolvedContext(last'.requests).raised
    /\ \/ Called("add_context") /\ last'.name \notin Values(ctx_names)
       \/ /\ Called("update_context")
          /\ last'.requests # NoRequests
          /\ last'.ctx_id \in DOMAIN suite.contexts

\* the context the step is about: the one added, or the one updated
Affected ==
    IF last'.op = "add_context" THEN Added ELSE {last'.ctx_id}

\* after the step context id holds the resolution of the empty request list
\* and contributes no tool
EndsEmpty(id) ==
    /\ id \in DOMAIN suite'.contexts
    /\ Resolution(suite'.contexts[id]) =
          [requests |-> << >>, success |-> ResolvedContext(<< >>).success,
           tools |-> << >>]
    /\ ~\E r \in Range(IterTools(ctx_names', suite')) :
            r.ctx_id = id

C18_AddedContextIsOnTop ==
    [][(Called("add_context") /\ Added # {}) =>
        \A id \in Added :
            /\ \A j \in DOMAIN suite.contexts :
                  /\ suite'.contexts[id].priority > suite.contexts[j].priority
                  /\ suite'.contexts[id].priority > suite'.contexts[j].priority
            /\ IterContexts(ctx_names', suite', FALSE)[1].ctx_id = id
            /\ \A k \in DOMAIN suite'.contexts[id].tools :
                  LET alias == ToolAlias(suite'.contexts[id],
                                         suite'.contexts[id].tools[k])
                  IN /\ {r.ctx_id : r \in Reported(ctx_names', suite', alias,
                                                    it_visible)} = {id}
                     /\ ~\E r \in Reported(ctx_names', suite', alias,
                                            it_shadowed) : r.ctx_id = id]_vars

\* C18 witness: a third context resolving ["foo"] was added to two contexts
\* exposing "build": it is yielded first and its "build" is the visible one,
\* the two others are shadowed.
C18_Witness ==
    /\ last.op = "add_context" /\ last.err = "none" /\ ~last.raised
    /\ Cardinality(DOMAIN suite.contexts) = 3
    /\ IterContexts(ctx_names, suite, FALSE)[1].name = last.name
    /\ IterContexts(ctx_names, suite, FALSE)[1].requests = <<"foo">>
    /\ \E r \in Reported(ctx_names, suite, "build", it_visible) :
          r.ctx_name = last.name
    /\ Cardinality({r.ctx_id : r \in Reported(ctx_names, suite, "build",
                                               it_shadowed)}) = 2

\* C19: iter_contexts yields every context of the suite exactly once, by
\* priority descending, or ascending with ascending=True, each record with
\* the name the identity map binds to its ctx_id.
C19_IterContextsOrdered ==
    (last.op = "iter_contexts") =>
        /\ Len(last.view) = Cardinality(DOMAIN suite.contexts)
        /\ {last.view[k].ctx_id : k \in DOMAIN last.view} = DOMAIN suite.contexts
        /\ \A k, l \in DOMAIN last.view : k < l =>
              IF last.ascending
              THEN last.view[k].priority <= last.view[l].priority
              ELSE last.view[k].priority >= last.view[l].priority
        /\ \A k \in DOMAIN last.view :
              /\ last.view[k].priority = suite.contexts[last.view[k].ctx_id].priority
              /\ last.view[k].ctx_id \in DOMAIN ctx_names
              /\ last.view[k].name = ctx_names[last.view[k].ctx_id]

\* C19 witness: iter_contexts(ascending=True) on three contexts yielded the
\* lowest priority first and the highest last.
C19_Witness ==
    /\ last.op = "iter_contexts" /\ last.ascending
    /\ Len(last.view) = 3
    /\ last.view[1].priority < last.view[2].priority
    /\ last.view[2].priority < last.view[3].priority

\* C20: a result of iter_contexts or iter_tools that is consumed after later
\* calls of add_context, drop_context, rename_context, update_context or
\* update_tool yields the records of the moment the query was called, each
\* with a name for its ctx_id, and consuming it does not fail.
C20_ResultIsSnapshot ==
    [][(Ready /\ last'.name = "consume" /\ gen.held >= 1) =>
        /\ last'.view = gen.then
        /\ ~last'.raised
        /\ \A k \in DOMAIN last'.view :
              IF gen.kind = "iter_contexts"
              THEN last'.view[k].name # NoArg
              ELSE last'.view[k].ctx_name # NoArg]_vars

\* the categories in the order iter_tools goes through them
CategoryOrder == <<it_visible, it_hidden, it_shadowed, it_missing>>

Rank(invalid) == CHOOSE k \in DOMAIN CategoryOrder : CategoryOrder[k] = invalid

\* the records of the last complete iter_tools pass with this status
Yielded(invalid) == {r \in Range(last.view) : r.invalid = invalid}

\* C21: iter_tools yields all visible tools first, then all hidden, then all
\* shadowed, then all missing ones: no record of an earlier category follows
\* a record of a later one.
C21_CategoryOrder ==
    (last.op = "iter_tools") =>
        \A k, l \in DOMAIN last.view :
            k < l => Rank(last.view[k].invalid) <= Rank(last.view[l].invalid)

\* C21 witness: one pass yielded tools of all four categories.
C21_Witness ==
    /\ last.op = "iter_tools"
    /\ \A k \in DOMAIN CategoryOrder : Yielded(CategoryOrder[k]) # {}

\* the tool of this saved entry is in the live resolution of its context
LiveInContext(d) ==
    /\ d.context_name \in DOMAIN suite.contexts
    /\ d.tool_name \in Range(suite.contexts[d.context_name].tools)

WithoutHidden(s) ==
    [contexts |->
        [i \in DOMAIN s.contexts |->
            [s.contexts[i] EXCEPT
                !.tools = SelectSeq(s.contexts[i].tools,
                              LAMBDA t : t \notin s.contexts[i].hidden_tools)]],
     next_priority |-> s.next_priority,
     saved_tools |-> s.saved_tools]

\* the visible and shadowed records iter_tools yields, in order
Contenders(names, s) ==
    SelectSeq(IterTools(names, s),
              LAMBDA r : r.invalid \in {it_visible, it_shadowed})

\* the statuses iter_tools reports the tool of a context under
StatusesOf(id, tool_name) ==
    {r.invalid : r \in {x \in Range(IterTools(ctx_names, suite)) :
                            x.ctx_id = id /\ x.name = tool_name}}

\* C22: a tool its owning context hides is reported as hidden and never as
\* visible or shadowed, whatever other contexts expose; and it takes no part
\* in a conflict: the visible and shadowed records are those of the suite
\* without its hidden tools.
C22_HiddenToolStaysOut ==
    /\ \A id \in DOMAIN suite.contexts :
          \A t \in Range(suite.contexts[id].tools) :
              t \in suite.contexts[id].hidden_tools =>
                  StatusesOf(id, t) = {it_hidden}
    /\ Contenders(ctx_names, suite) = Contenders(ctx_names, WithoutHidden(suite))

\* C22 witness: the context of highest priority hides its "build" while a
\* context below it exposes a tool under that alias, which is visible.
C22_Witness ==
    \E i, j \in DOMAIN suite.contexts :
        /\ suite.contexts[i].priority > suite.contexts[j].priority
        /\ "build" \in suite.contexts[i].hidden_tools
        /\ "build" \in Range(suite.contexts[i].tools)
        /\ ToolAlias(suite.contexts[i], "build") = "build"
        /\ \E r \in Reported(ctx_names, suite, "build", it_visible) : r.ctx_id = j

\* how many records of a pass satisfy Test
Count(view, Test(_)) == Cardinality({k \in DOMAIN view : Test(view[k])})

\* every tool of every context has one live record, and an alias has at most
\* one visible record
OneRecordPerTool ==
    LET view == IterTools(ctx_names, suite) IN
    /\ \A id \in DOMAIN suite.contexts :
          \A t \in Range(suite.contexts[id].tools) :
              Count(view, LAMBDA r : /\ r.ctx_id = id /\ r.name = t
                                     /\ r.invalid # it_missing) = 1
    /\ \A alias \in AliasesOf(suite) :
          Count(view, LAMBDA r : r.alias = alias /\ r.invalid = it_visible) <= 1

\* the visible records that hold the alias of a shadowed record
Winners(r) == Reported(ctx_names, suite, r.alias, it_visible)

Shadowed == {r \in Range(IterTools(ctx_names, suite)) : r.invalid = it_shadowed}

AliasApplied(before, after, tool_name, new_alias) ==
    /\ new_alias = NoArg => after.tool_aliases = before.tool_aliases
    /\ new_alias = "" => after.tool_aliases = MapDel(before.tool_aliases, tool_name)
    /\ new_alias \notin {NoArg, ""} =>
          after.tool_aliases = MapSet(before.tool_aliases, tool_name, new_alias)

\* the hide override of a tool after update_tool(.., set_hidden)
HideApplied(before, after, tool_name, set_hidden) ==
    /\ set_hidden = NoArg => after.hidden_tools = before.hidden_tools
    /\ set_hidden = "True" => after.hidden_tools = before.hidden_tools \cup {tool_name}
    /\ set_hidden = "False" => after.hidden_tools = before.hidden_tools \ {tool_name}

\* C28: update_tool on a tool of ctx_id is accepted whatever the tool's
\* status (visible, hidden or shadowed); the alias/hide override is applied
\* to the owning context, whose resolution, priority and affixes stay, and
\* no other context is changed.
C28_AnyStatusIsAddressable ==
    [][(/\ Called("update_tool")
        /\ SuiteValidateTool(suite, last'.ctx_id, last'.name)
        /\ StatusesOf(last'.ctx_id, last'.name)
                \subseteq {it_visible, it_hidden, it_shadowed}) =>
        LET id == last'.ctx_id
            before == suite.contexts[id]
            after == suite'.contexts[id]
        IN /\ last'.err = "none" /\ ~last'.raised
           /\ DOMAIN suite'.contexts = DOMAIN suite.contexts
           /\ \A j \in DOMAIN suite.contexts \ {id} :
                 suite'.contexts[j] = suite.contexts[j]
           /\ AliasApplied(before, after, last'.name, last'.new_alias)
           /\ HideApplied(before, after, last'.name, last'.set_hidden)
           /\ after = [before EXCEPT !.tool_aliases = after.tool_aliases,
                                     !.hidden_tools = after.hidden_tools]
           /\ ctx_names' = ctx_names]_vars

\* C28 witness: update_tool(ctx_id, "build", set_hidden=False) was accepted for
\* a tool that is shadowed by a context of higher priority, which is untouched.
C28_Witness ==
    /\ last.op = "update_tool" /\ last.err = "none"
    /\ last.set_hidden = "False"
    /\ last.ctx_id \in DOMAIN suite.contexts
    /\ StatusesOf(last.ctx_id, last.name) = {it_shadowed}
    /\ \E v \in Reported(ctx_names, suite, "build", it_visible) :
          /\ v.ctx_id # last.ctx_id
          /\ suite.contexts[v.ctx_id].hidden_tools = {}

\* C30: a to_dict that returns leaves the operator as it was: the suite is
\* keyed by the same ctx_ids, the identity map, priorities, requests and
\* overrides are the same, iter_contexts and iter_tools yield what they
\* yielded before; the dict has one entry per context, under its name.
C30_ToDictLeavesOperator ==
    [][(Called("to_dict") /\ ~last'.raised) =>
        /\ DOMAIN suite'.contexts = DOMAIN suite.contexts
        /\ suite' = suite
        /\ ctx_names' = ctx_names
        /\ \A ascending \in BOOLEAN :
              IterContexts(ctx_names', suite', ascending)
                  = IterContexts(ctx_names, suite, ascending)
        /\ IterTools(ctx_names', suite') = IterTools(ctx_names, suite)
        /\ Len(last'.view) = Cardinality(DOMAIN suite.contexts)
        /\ \A id \in DOMAIN suite.contexts :
              \E v \in Range(last'.view) :
                  /\ v.name = ctx_names[id]
                  /\ v.priority = suite.contexts[id].priority
                  /\ v.requests = suite.contexts[id].requests]_vars

\* C30 witness: to_dict returned the dict of two contexts, one of them with
\* an override, and the suite is keyed by their ctx_ids.
C30_Witness ==
    /\ last.op = "to_dict" /\ ~last.raised
    /\ Len(last.view) = 2
    /\ DOMAIN suite.contexts = DOMAIN ctx_names
    /\ \E id \in DOMAIN suite.contexts :
          suite.contexts[id].hidden_tools # {}

\* the call in progress is one of the failing calls: a duplicate name in
\* add_context, an unknown id or a duplicate name in rename_context, an
\* unknown id in update_context, an unmatched tool in update_tool
FailingCall ==
    \/ Called("add_context") /\ last'.name \in Values(ctx_names)
    \/ /\ Called("rename_context")
       /\ \/ last'.ctx_id \notin DOMAIN suite.contexts
          \/ last'.name \in Values(ctx_names)
    \/ Called("update_context") /\ last'.ctx_id \notin DOMAIN suite.contexts
    \/ /\ Called("update_tool")
       /\ ~SuiteValidateTool(suite, last'.ctx_id, last'.name)

\* C27: a failing call (duplicate name in add_context, unknown id or
\* duplicate name in rename_context, unknown id in update_context, unmatched
\* tool in update_tool) leaves the operator as it was before the call: the
\* identity map, the suite and the ids to come are unchanged, so every later
\* call starts from the state it would have started from without it.
C27_FailedCallLeavesNoTrace ==
    [][FailingCall =>
        /\ ctx_names' = ctx_names
        /\ suite' = suite
        /\ next_id' = next_id
        /\ receivers' = receivers]_vars

\* C27 witness: add_context with the name of the only context was reported
\* to the listener, and the operator still has that one context.
C27_Witness ==
    /\ last.op = "add_context" /\ last.err = "dup" /\ last.sent /\ ~last.raised
    /\ Cardinality(DOMAIN ctx_names) = 1
    /\ DOMAIN suite.contexts = DOMAIN ctx_names
    /\ last.name \in Values(ctx_names)

\* the aliases the live records of iter_tools give the tool of a context
LiveAliases(names, s, id, tool_name) ==
    {r.alias : r \in {x \in Range(IterTools(names, s)) :
                        /\ x.ctx_id = id /\ x.name = tool_name
                        /\ x.invalid # it_missing}}

\* what an optional argument leaves of a field
Given(arg, old) == IF arg = NoArg THEN old ELSE arg

\* C29: a tool is exposed under its explicit alias when it has one, otherwise
\* under its name between the prefix and the suffix of its context; after
\* update_context(ctx_id, prefix=.., suffix=..) the tools of ctx_id without
\* explicit alias are exposed under the name decorated with the affixes now
\* in force, its explicitly aliased tools under their explicit alias as
\* before, and the tools of other contexts as before.
C29_AffixesDecorateUnaliasedTools ==
    [][(/\ Called("update_context")
        /\ last'.ctx_id \in DOMAIN suite.contexts
        /\ ~last'.raised) =>
        LET id == last'.ctx_id
            before == suite.contexts[id]
            prefix == Given(last'.prefix, before.prefix)
            suffix == Given(last'.suffix, before.suffix)
        IN /\ \A t \in Range(suite'.contexts[id].tools) :
                 LiveAliases(ctx_names', suite', id, t)
                    = {IF t \in DOMAIN before.tool_aliases
                       THEN before.tool_aliases[t]
                       ELSE prefix \o t \o suffix}
           /\ \A j \in DOMAIN suite.contexts \ {id} : \A t \in ToolNames :
                 LiveAliases(ctx_names', suite', j, t)
                    = LiveAliases(ctx_names, suite, j, t)]_vars

\* C29 witness: update_context(ctx_id, prefix="x") on a context that exposes
\* "run" under the explicit alias "build": its "build" is now exposed as
\* "xbuild", its "run" still as "build".
C29_Witness ==
    /\ last.op = "update_context" /\ last.prefix = "x" /\ ~last.raised
    /\ last.ctx_id \in DOMAIN suite.contexts
    /\ LiveAliases(ctx_names, suite, last.ctx_id, "build") = {"xbuild"}
    /\ LiveAliases(ctx_names, suite, last.ctx_id, "run") = {"build"}

\* the call in progress is a complete pass of the query whose last pass the
\* caller kept, with no mutating call made since
RepeatedPass ==
    /\ Ready /\ last'.name \in {"pass", "repeat"}
    /\ gen.kind = last'.op /\ gen.ascending = last'.ascending
    /\ gen.held = 0

C31_DroppedContextIsGone ==
    [][(Called("drop_context") /\ last'.ctx_id \in DOMAIN suite.contexts) =>
        LET id == last'.ctx_id
            again == AddContext(ctx_names', suite', next_id', receivers',
                                ctx_names[id], << >>)
        IN /\ id \notin DOMAIN ctx_names' /\ id \notin DOMAIN suite'.contexts
           /\ \A r \in Range(IterTools(ctx_names', suite')) : r.ctx_id # id
           /\ \A alias \in AliasesOf(suite) :
                 (/\ \E v \in Reported(ctx_names, suite, alias, it_visible) :
                        v.ctx_id = id
                  /\ Exposers(suite', alias) # {}) =>
                     \E v \in Reported(ctx_names', suite', alias, it_visible) :
                         v.ctx_id = Top(suite', Exposers(suite', alias))
           /\ again.emit.err = "none" /\ ~again.raised /\ again.used_id
           /\ next_id' # id /\ next_id' \notin DOMAIN ctx_names
           /\ again.names[next_id'] = ctx_names[id]
           /\ next_id' \in DOMAIN again.suite.contexts]_vars

\* C31 witness: a context that had a name was dropped, and the "build" of a
\* context that remains is visible.
C31_Witness ==
    /\ last.op = "drop_context" /\ last.name # NoArg
    /\ last.ctx_id \notin DOMAIN suite.contexts
    /\ last.name \notin Values(ctx_names)
    /\ Reported(ctx_names, suite, "build", it_visible) # {}

Priorities(s) == {s.contexts[i].priority : i \in DOMAIN s.contexts}

\* C32: the priorities of the contexts of the suite are pairwise distinct in
\* every state add_context, drop_context, rename_context and update_context
\* lead to, and a context that is added gets a priority above every priority
\* in use, whatever was dropped before.
C32_PrioritiesDistinct ==
    [][/\ \A i, j \in DOMAIN suite'.contexts :
             i # j => suite'.contexts[i].priority # suite'.contexts[j].priority
       /\ \A i \in DOMAIN suite'.contexts \ DOMAIN suite.contexts :
             \A p \in Priorities(suite) : suite'.contexts[i].priority > p]_vars

\* C32 witness: add_context succeeded after a context had been dropped (fewer
\* contexts than priorities given out), beside a context that remains.
C32_Witness ==
    /\ last.op = "add_context" /\ last.err = "none" /\ ~last.raised
    /\ Cardinality(DOMAIN suite.contexts) = 2
    /\ Cardinality(DOMAIN suite.contexts) < suite.next_priority - 1

\* what both clauses of C33 about a pair of calls promise
PairRestores == IterTools(ctx_names', suite') = IterTools(ctx_names, suite)

\* the tool of the call in progress is a tool of its context
AddressesTool == SuiteValidateTool(suite, last'.ctx_id, last'.name)

\* the pair alias/unalias on a tool without explicit alias, and a repeated
\* set_hidden=True
AliasPairAndRepeatedHide ==
    /\ (/\ Called("alias_unalias") /\ AddressesTool
        /\ last'.name \notin DOMAIN suite.contexts[last'.ctx_id].tool_aliases)
            => PairRestores
    /\ (/\ Called("update_tool") /\ AddressesTool
        /\ last'.set_hidden = "True" /\ last'.new_alias = NoArg
        /\ last'.name \in suite.contexts[last'.ctx_id].hidden_tools)
            => suite' = suite

\* C33 as stated: set_hidden=True followed by set_hidden=False on the same
\* tool, and new_alias=a followed by new_alias="" on a tool without explicit
\* alias, return iter_tools to what it yielded before the pair; a repeated
\* set_hidden=True changes nothing.
C33_OverridesReversible ==
    [][/\ (Called("hide_unhide") /\ AddressesTool) => PairRestores
       /\ AliasPairAndRepeatedHide]_vars

\* C33, amended: the pair set_hidden=True, set_hidden=False restores the
\* output when the tool was not hidden before the pair; the rest as stated.
C33_OverridesReversibleIfUnset ==
    [][/\ (/\ Called("hide_unhide") /\ AddressesTool
           /\ last'.name \notin suite.contexts[last'.ctx_id].hidden_tools)
               => (PairRestores /\ suite' = suite)
       /\ AliasPairAndRepeatedHide]_vars

\* C33 witness: the pair set_hidden=True, set_hidden=False was made on the
\* "build" of a context above another one exposing "build"; the tool is
\* visible again and the other one shadowed.
C33_Witness ==
    /\ last.op = "hide_unhide" /\ last.err = "none" /\ last.name = "build"
    /\ StatusesOf(last.ctx_id, "build") = {it_visible}
    /\ Reported(ctx_names, suite, "build", it_shadowed) # {}

\* C34: update_tool with a non-empty new_alias on a tool that has an explicit
\* alias replaces it: the call reports and raises nothing, the tool has the
\* new alias and is exposed under it only; with new_alias = "" the explicit
\* alias is removed and the tool is exposed under its decorated name.  The
\* same for the second of two update_tool calls that each give an alias.
C34_AliasIsReplaced ==
    [][(/\ Called("update_tool") \/ Called("alias_realias")
        /\ AddressesTool
        /\ last'.new_alias # NoArg) =>
        LET id == last'.ctx_id
            t == last'.name
            after == suite'.contexts[id]
        IN /\ last'.err = "none" /\ ~last'.raised
           /\ last'.new_alias # "" =>
                 /\ after.tool_aliases
                        = MapSet(MapDel(suite.contexts[id].tool_aliases, t),
                                 t, last'.new_alias)
                 /\ LiveAliases(ctx_names', suite', id, t) = {last'.new_alias}
           /\ last'.new_alias = "" =>
                 /\ t \notin DOMAIN after.tool_aliases
                 /\ LiveAliases(ctx_names', suite', id, t)
                        = {after.prefix \o t \o after.suffix}]_vars

\* C34 witness: update_tool(ctx_id, "run", new_alias="build") returned for a
\* tool that update_tool had just given the alias "go": the tool is exposed as
\* "build" only.
C34_Witness ==
    /\ last.op = "alias_realias" /\ last.err = "none" /\ ~last.raised
    /\ last.name = "run" /\ last.new_alias = "build"
    /\ LiveAliases(ctx_names, suite, last.ctx_id, "run") = {"build"}

\* a seed that is no Suite
NoSuite == {"bogus", "falsy"}

\* C35: constructing a SuiteOp with a seed that is no Suite hands an error to
\* the channel; with a listener attached the error is sent and construction
\* goes on with a new empty suite (no contexts, empty identity map, sanity
\* check passing); without one it is raised and no operator is made, the one
\* in use staying as it is.
C35_BogusSeed ==
    [][(Called("init") /\ last'.name \in NoSuite) =>
        /\ last'.err = "type" /\ ~last'.fatal
        /\ receivers =>
              /\ last'.sent /\ ~last'.raised
              /\ ctx_names' = EmptyMap
              /\ suite'.contexts = EmptyMap
              /\ \A ok \in BOOLEAN :
                    SanityCheck(ctx_names', suite', receivers', ok).err = "none"
        /\ ~receivers =>
              /\ last'.raised /\ ~last'.sent
              /\ ctx_names' = ctx_names /\ suite' = suite]_vars

RECURSIVE SumTo(_, _)
SumTo(f, n) == IF n = 0 THEN 0 ELSE f[n] + SumTo(f, n - 1)

\* what the widget holds but for the event that was handled
SansEvent(st) == [st EXCEPT !.event = BusyEvent("init", 0, FALSE)]

\* C37: for every BusyWidget the override cursors it pushed less those it
\* restored are 1 while it is busy with the pointer inside and 0 otherwise,
\* the application's stack holding just these; the event filter is on the
\* widget exactly while it is busy; set_overwhelmed with the value the widget
\* has changes nothing.
C37_BusyCursorBalanced ==
    [][/\ \A w \in BusyWidgets :
             /\ widget'.balance[w]
                    = IF widget'._is_busy[w] /\ widget'._entered[w] THEN 1 ELSE 0
             /\ ("self" \in widget'.filtered[w]) <=> widget'._is_busy[w]
       /\ widget'.cursors = SumTo(widget'.balance, MaxWidgets)
       /\ (/\ widget'.event.op = "set_overwhelmed"
           /\ widget'.event.busy = widget._is_busy[widget'.event.w])
               => SansEvent(widget') = SansEvent(widget)]_vars

\* C37 witness: set_overwhelmed(True) on a widget the pointer is in: one
\* override cursor is pushed and the filter installed, while another widget
\* is busy with the pointer outside.
C37_Witness ==
    /\ widget.kind = "BusyWidget"
    /\ widget.event.op = "set_overwhelmed" /\ widget.event.busy
    /\ widget._entered[widget.event.w] /\ widget.balance[widget.event.w] = 1
    /\ widget.cursors = 1
    /\ \E w \in BusyWidgets : widget._is_busy[w] /\ ~widget._entered[w]

\* C36: in NameStackedBase _names and _callbacks have one length, the panels
\* number max(1, len(_names)), the panel at each index is the one of the name
\* at that index, and the panel at index 0 is the disabled placeholder
\* exactly when _names is empty.
C36_PanelsFollowNames ==
    /\ Len(widget._callbacks) = Len(widget._names)
    /\ Len(widget.panels) = IF Len(widget._names) = 0 THEN 1 ELSE Len(widget._names)
    /\ \A i \in DOMAIN widget._names : widget.panels[i]._name = widget._names[i]
    /\ ~widget.panels[1].enabled <=> widget._names = << >>
    /\ widget.panels[1]._name = "" <=> widget._names = << >>

\* C36 witness: a context that is not the newest is renamed while another
\* is shown too, and its panel has taken the new name.
C36_Witness ==
    /\ widget.kind = "NameStackedBase"
    /\ widget.event.op = "on_context_renamed"
    /\ Len(widget._names) = 2
    /\ widget._names[2] = widget.event.new_name
    /\ widget.panels[2]._name = widget.event.new_name
    /\ widget.panels[1].enabled

\* `added` and `renamed` carry valid names only, and Cancel sends nothing
EmitsOnlyValidNames ==
    /\ widget'.emitted.sig = "added"
         => /\ widget'.emitted.name # ""
            /\ widget'.emitted.name \notin widget.dialog._blacklist
            /\ widget.dialog._blacklist = widget.names
    /\ widget'.emitted.sig = "renamed"
         => /\ widget'.emitted.new_name # ""
            /\ widget'.emitted.new_name # widget'.emitted.name
            /\ widget'.emitted.new_name \notin widget.names \ {widget'.emitted.name}
    /\ widget'.event = "reject" => widget'.emitted = NoSignal

\* Accept is enabled exactly when the text is a name that may be given
AcceptFollowsText ==
    widget'.dialog.open # "none"
        => (widget'.dialog.accept
              <=> (widget'.dialog.text # ""
                     /\ widget'.dialog.text \notin widget'.dialog._blacklist))

\* C38: the naming dialogs emit `added` only with a non-empty name no context
\* had when the dialog was opened, `renamed` only with a non-empty new name
\* that is not the old one nor the name of another context, nothing on
\* Cancel; Accept is enabled exactly when the text is non-empty and not in
\* the list of existing names.
C38_DialogsEmitValidNames == [][EmitsOnlyValidNames /\ AcceptFollowsText]_vars

\* what the widget holds but for the event that was handled
SansResolveEvent(st) == [st EXCEPT !.event = ResolveEvent("init", 0)]

\* C39: in ContextResolveWidget the stash holds no context twice and a
\* stashed context is put first; the staged context is None exactly when the
\* stash is empty and is else one of the stash, the new one right after it is
\* stashed; stashing a context the stash holds changes nothing; the diff
\* switch is never on while no context is staged.
C39_StashAndStage ==
    [][/\ \A i, j \in DOMAIN widget'._stashes :
             widget'._stashes[i] = widget'._stashes[j] => i = j
       /\ widget'._staged = NoneStaged <=> widget'._stashes = << >>
       /\ widget'._staged # NoneStaged => widget'._staged \in Range(widget'._stashes)
       /\ widget'.event.op = "stash_context"
            => IF widget'.event.arg \in Range(widget._stashes)
               THEN SansResolveEvent(widget') = SansResolveEvent(widget)
               ELSE /\ widget'._stashes = <<widget'.event.arg>> \o widget._stashes
                    /\ widget'._staged = widget'.event.arg
       /\ widget'.diff => widget'._staged # NoneStaged]_vars

\* C39 witness: with the diff switch on and an older context staged, a
\* third context is stashed: it is first of three and is the staged one.
C39_Witness ==
    /\ widget.kind = "ContextResolveWidget"
    /\ widget.event.op = "stash_context"
    /\ Len(widget._stashes) = 3
    /\ widget._stashes[1] = widget.event.arg
    /\ widget._staged = widget.event.arg
    /\ widget.diff

====
